---- MODULE Spec2Model ----
(***************************************************************************)
(* A model of the XBRL core of Dimi_Kensho: the namespace normalizer       *)
(* (SECFetcher.remove_namespace), the context resolvers                    *)
(* (SECFetcher.get_xbrl_data, utils.create_context_period_mapping), the    *)
(* latest-period selector (FinancialTranslator._extract_latest_context)    *)
(* and the context filter (FinancialTranslator._filter_and_translate),    *)
(* the presentation hierarchy builder (SECFetcher.create_hierarchy_json),  *)
(* the section namer (SECFetcher.get_section_name), the translation        *)
(* batches (llm_translate.get_llm_translations), main, and two pipelines   *)
(* run side by side.                                                       *)
(*                                                                         *)
(* Strings are sequences of one-character strings, so that split, lower    *)
(* and membership tests are computed as Python computes them.              *)
(***************************************************************************)
EXTENDS Integers, Sequences, FiniteSets, TLC

VARIABLES
    nsPrefix,      \* normalizer input: the prefix of the tag
    nsSep,         \* normalizer input: the separator after the prefix
    nsName,        \* normalizer input: the name after the separator
    nsOut,         \* results of remove_namespace applied 1, 2, ... times
    xbrlKey,       \* key get_xbrl_data stores the instance tag under, or NoKey
    searchTag,     \* key create_hierarchy_json looks the href fragment up by
    contexts,      \* context_data.json: the entries of the context map, in file order
    hierarchy_data,   \* FinancialTranslator.hierarchy_data (hierarchy.json once loaded)
    latest_contexts,  \* what _extract_latest_context returned (or that it raised)
    translated_data,  \* FinancialTranslator.translated_data
    pc,            \* position of translate_recent_statements
    instance_doc,  \* the <context> elements of the instance document, in order
    context_data,  \* what the context loop of get_xbrl_data produced
    instance_facts,   \* the tagged elements of the instance document, in order
    xbrl_data,     \* what get_xbrl_data returned: the data points, key by key
    dpList,        \* the data-point list of one concept node (item['data'])
    dedupOut,      \* results of the filter-and-dedup loop applied 1, 2, ... times
    pre_doc,       \* the presentationLink elements of the presentation linkbase
    hierarchy_json,   \* what create_hierarchy_json returned and wrote to hierarchy.json
    role,          \* get_section_name input: the role URI
    section_name,  \* get_section_name result
    tags_list,     \* get_llm_translations input: the tags, in order
    translations,  \* get_llm_translations: the translations map, tag by tag
    tags_to_translate,  \* the tags without an entry when the batches start
    batch_start,   \* i of the loop over the batches
    retry_count,   \* retry_count of the batch being requested
    llm_log,       \* the requests made to the translation service, in order
    llm_pc,        \* position of get_llm_translations
    pipes,         \* two pipelines: objects and directory used, position, results
    objects,       \* the fields of each SECFetcher object
    dirs,          \* the files of each data directory
    main_pc,       \* position of main
    main_ran,      \* the stages main has started, in order
    main_xbrl      \* main's variable xbrl_data

nsVars == <<nsPrefix, nsSep, nsName, nsOut, xbrlKey, searchTag>>

selVars == <<contexts, hierarchy_data, latest_contexts, translated_data, pc>>

docVars == <<instance_doc, context_data>>

factVars == <<instance_facts, xbrl_data>>

dedupVars == <<dpList, dedupOut>>

preVars == <<pre_doc, hierarchy_json>>

roleVars == <<role, section_name>>

llmVars == <<tags_list, translations, tags_to_translate, batch_start, retry_count,
             llm_log, llm_pc>>

pipeVars == <<pipes, objects, dirs>>

mainVars == <<main_pc, main_ran, main_xbrl>>

vars == <<nsVars, selVars, docVars, factVars, dedupVars, preVars, roleVars,
          llmVars, pipeVars, mainVars>>

\* ------------------------------------------------------------------ bounds

\* how many words (joined by separators) a bare name is built from
MaxNameWords == 2

\* how many times in a row remove_namespace is applied to its own result
MaxApply == 2

\* how many <context> elements an instance document holds at most
MaxDocContexts == 2

\* how many contexts a start date is repeated in at most
MaxRepeat == 10

\* how many one-off contexts a context map holds besides the repeated ones
MaxExtras == 1

\* how many tagged elements an instance document holds at most
MaxFacts == 2

\* how many data points the list of one concept node holds at most
MaxPoints == 3

\* how many presentationArc elements the first link of a linkbase holds at most
MaxArcs == 2

\* ------------------------------------------------------------- characters

UpperChars == <<"A","B","C","D","E","F","G","H","I","J","K","L","M",
                "N","O","P","Q","R","S","T","U","V","W","X","Y","Z">>

LowerChars == <<"a","b","c","d","e","f","g","h","i","j","k","l","m",
                "n","o","p","q","r","s","t","u","v","w","x","y","z">>

\* str.lower() on one character
LowerChar(c) ==
    IF \E i \in 1..Len(UpperChars) : UpperChars[i] = c
    THEN LowerChars[CHOOSE i \in 1..Len(UpperChars) : UpperChars[i] = c]
    ELSE c

\* str.lower()
Lower(s) == [i \in 1..Len(s) |-> LowerChar(s[i])]

\* c in s
Contains(s, c) == \E i \in 1..Len(s) : s[i] = c

\* index of the first occurrence of c in s (s contains c)
FirstIndex(s, c) ==
    CHOOSE i \in 1..Len(s) : s[i] = c /\ \A j \in 1..(i - 1) : s[j] # c

\* s.split(c, 1)[0]
SplitHead(s, c) == SubSeq(s, 1, FirstIndex(s, c) - 1)

\* s.split(c, 1)[1]
SplitRest(s, c) == SubSeq(s, FirstIndex(s, c) + 1, Len(s))

\* s.split(c)[1]: the field between the first and the second c
SplitSecond(s, c) ==
    LET rest == SplitRest(s, c)
    IN  IF Contains(rest, c) THEN SplitHead(rest, c) ELSE rest

\* s.startswith(p)
StartsWith(s, p) == Len(s) >= Len(p) /\ SubSeq(s, 1, Len(p)) = p

\* ------------------------------------------------- namespace normalizer

NsStandard ==
    { <<"u","s","-","g","a","a","p">>, <<"u","s","g","a","a","p">>,
      <<"u","s">>, <<"g","a","a","p">>, <<"d","e","i">>, <<"s","r","t">> }

NsInternational ==
    { <<"i","f","r","s">>, <<"c","o","u","n","t","r","y">>,
      <<"c","u","r","r","e","n","c","y">> }

NsOther ==
    { <<"i","n","v","e","s","t">>, <<"r","i","s","k">>, <<"r","e","f">>,
      <<"e","c","d">> }

\* every pattern of ns_patterns, whatever its category
NsPatterns == NsStandard \cup NsInternational \cup NsOther

\* a plausible slip: the '_' branch strips whatever stands before the underscore
remove_namespace_strip_any(tag) ==
    IF Contains(tag, ":") THEN Lower(SplitRest(tag, ":"))
    ELSE IF Contains(tag, "_") THEN Lower(SplitRest(tag, "_"))
    ELSE IF Contains(tag, "-") /\ Lower(SplitHead(tag, "-")) \in NsStandard
         THEN Lower(SplitRest(tag, "-"))
    ELSE Lower(tag)

\* a plausible slip: the stripped name is returned without lower-casing
remove_namespace_keep_case(tag) ==
    IF Contains(tag, ":") THEN SplitRest(tag, ":")
    ELSE IF Contains(tag, "_") /\ Lower(SplitHead(tag, "_")) \in NsPatterns
         THEN SplitRest(tag, "_")
    ELSE IF Contains(tag, "-") /\ Lower(SplitHead(tag, "-")) \in NsStandard
         THEN SplitRest(tag, "-")
    ELSE Lower(tag)

\* a plausible slip: the '_' branch consults the standard category only
remove_namespace_standard_only(tag) ==
    IF Contains(tag, ":") THEN Lower(SplitRest(tag, ":"))
    ELSE IF Contains(tag, "_") /\ Lower(SplitHead(tag, "_")) \in NsStandard
         THEN Lower(SplitRest(tag, "_"))
    ELSE IF Contains(tag, "-") /\ Lower(SplitHead(tag, "-")) \in NsStandard
         THEN Lower(SplitRest(tag, "-"))
    ELSE Lower(tag)

\* SECFetcher.remove_namespace (FinancialTranslator.remove_namespace is the same text)
remove_namespace(tag) ==
    IF Contains(tag, ":") THEN Lower(SplitRest(tag, ":"))
    ELSE IF Contains(tag, "_") /\ Lower(SplitHead(tag, "_")) \in NsPatterns
         THEN Lower(SplitRest(tag, "_"))
    ELSE IF Contains(tag, "-") /\ Lower(SplitHead(tag, "-")) \in NsStandard
         THEN Lower(SplitRest(tag, "-"))
    ELSE Lower(tag)

UsGaapColon == <<"u","s","-","g","a","a","p",":">>

NoKey == <<"<", "n", "o", "n", "e", ">">>

\* get_xbrl_data: the HTML parser lower-cases element names, only us-gaap:
\* elements are collected, and the key is element.name.split(':')[1].lower()
FactTagName(tag) ==
    LET name == Lower(tag)
    IN  IF StartsWith(name, UsGaapColon) THEN Lower(SplitSecond(name, ":")) ELSE NoKey

\* create_hierarchy_json: search_tag = self.remove_namespace(to_tag).lower()
SearchTag(to_tag) == Lower(remove_namespace(to_tag))

\* ------------------------------------------------------ normalizer inputs

Separators == {":", "_", "-"}

\* prefixes no pattern list holds
FilerPrefixes ==
    { <<"a","a","p","l">>, <<"n","v","d","a">> }

\* recognized prefixes as filings write them, in lower, upper or mixed case
PrefixInputs ==
    NsPatterns \cup FilerPrefixes
        \cup { <<"U","S","-","G","A","A","P">>, <<"I","f","r","s">> }

NameWords ==
    { <<"R","e","v">>, <<"u","s">>, <<"d","e","i">>, <<"i","f","r","s">>,
      <<"a","a","p","l">> }

RECURSIVE NamesOf(_)
\* bare names of n words joined by separators
NamesOf(n) ==
    IF n = 1 THEN NameWords
    ELSE { w \o <<s>> \o r : w \in NameWords, s \in Separators, r \in NamesOf(n - 1) }

NameInputs == UNION { NamesOf(n) : n \in 1..MaxNameWords }

\* the tag P + sep + N
Tag(p, s, n) == p \o <<s>> \o n

nsTag == Tag(nsPrefix, nsSep, nsName)

\* the translator has not run
SelIdle ==
    /\ contexts = <<>>
    /\ hierarchy_data = <<>>
    /\ latest_contexts = [status |-> "none", ids |-> {}, baseline |-> <<>>]
    /\ translated_data = <<>>
    /\ pc = "idle"

\* no instance document is being resolved
DocIdle ==
    /\ instance_doc = <<>>
    /\ context_data = [status |-> "none", map |-> <<>>]

\* get_xbrl_data has not returned
NotFetched == [status |-> "none", facts |-> <<>>]

\* create_hierarchy_json has not returned
NotBuilt == [status |-> "none", sections |-> <<>>]

\* no facts are being extracted
FactIdle ==
    /\ instance_facts = <<>>
    /\ xbrl_data = NotFetched

\* no data-point list is being filtered
DedupIdle ==
    /\ dpList = <<>>
    /\ dedupOut = <<>>

\* no presentation linkbase is being read
PreIdle ==
    /\ pre_doc = <<>>
    /\ hierarchy_json = NotBuilt

\* get_section_name has not returned
NotNamed == <<"<", "n", "o", "t", " ", "n", "a", "m", "e", "d", ">">>

\* no role is being named
RoleIdle ==
    /\ role = <<>>
    /\ section_name = NotNamed

\* get_llm_translations has not been called
LlmIdle ==
    /\ tags_list = <<>>
    /\ translations = <<>>
    /\ tags_to_translate = <<>>
    /\ batch_start = 0
    /\ retry_count = 0
    /\ llm_log = <<>>
    /\ llm_pc = "idle"

\* no pipeline is running
PipeIdle ==
    /\ pipes = <<>>
    /\ objects = <<>>
    /\ dirs = <<>>

\* main is not running
MainIdle ==
    /\ main_pc = "idle"
    /\ main_ran = <<>>
    /\ main_xbrl = "unset"

\* the normalizer has not run
NsIdle ==
    /\ nsPrefix = <<>>
    /\ nsSep = ":"
    /\ nsName = <<>>
    /\ nsOut = <<>>
    /\ xbrlKey = NoKey
    /\ searchTag = NoKey

NsInit ==
    /\ LlmIdle
    /\ PipeIdle
    /\ MainIdle
    /\ SelIdle
    /\ DocIdle
    /\ FactIdle
    /\ DedupIdle
    /\ PreIdle
    /\ RoleIdle
    /\ nsPrefix \in PrefixInputs
    /\ nsSep \in Separators
    /\ nsName \in NameInputs
    /\ nsOut = <<>>
    /\ xbrlKey = NoKey
    /\ searchTag = NoKey

\* remove_namespace applied to the tag, then to its own result
RemoveNamespace ==
    /\ Len(nsOut) < MaxApply
    /\ nsOut' = Append(nsOut,
                       remove_namespace(IF nsOut = <<>> THEN nsTag
                                        ELSE nsOut[Len(nsOut)]))
    /\ UNCHANGED <<nsPrefix, nsSep, nsName, xbrlKey, searchTag, selVars, docVars,
                   factVars, dedupVars, llmVars, pipeVars, mainVars, preVars, roleVars>>

\* the fact extractor stores the instance tag P:N
StoreFact ==
    /\ xbrlKey = NoKey
    /\ FactTagName(Tag(nsPrefix, ":", nsName)) # NoKey
    /\ xbrlKey' = FactTagName(Tag(nsPrefix, ":", nsName))
    /\ UNCHANGED <<nsPrefix, nsSep, nsName, nsOut, searchTag, selVars, docVars,
                   factVars, dedupVars, llmVars, pipeVars, mainVars, preVars, roleVars>>

\* the hierarchy builder looks the href fragment P_N up
LookupHref ==
    /\ searchTag = NoKey
    /\ searchTag' = SearchTag(Tag(nsPrefix, "_", nsName))
    /\ UNCHANGED <<nsPrefix, nsSep, nsName, nsOut, xbrlKey, selVars, docVars,
                   factVars, dedupVars, llmVars, pipeVars, mainVars, preVars, roleVars>>

NsNext == RemoveNamespace \/ StoreFact \/ LookupHref

SpecNs == NsInit /\ [][NsNext]_vars

\* ------------------------------------------------------------ date strings

\* A date string of context_data.json: "iso" is zero-padded YYYY-MM-DD,
\* "loose" is the same day written without padding (2024-1-5), "bad" is text
\* strptime rejects, "empty" is '' and "absent" stands for a missing key.
\* day is the day number of the date (0 when there is none).
DateStr(txt, d) == [txt |-> txt, day |-> d]

Iso(d) == DateStr("iso", d)

Absent == DateStr("absent", 0)

\* datetime.strptime(s, "%Y-%m-%d") succeeds
Parses(s) == s.txt \in {"iso", "loose"}

\* datetime.strptime(s, "%Y-%m-%d"), for a string that parses
strptime(s) == s.day

\* dt.strftime("%Y-%m-%d")
strftime(d) == Iso(d)

\* bool(s) of data.get(key)
Truthy(s) == s.txt \notin {"absent", "empty"}

\* ------------------------------------------------------------ context ids

DigitChars == <<"0","1","2","3","4","5","6","7","8","9">>

RECURSIVE Decimal(_)
\* str(n)
Decimal(n) ==
    IF n < 10 THEN <<DigitChars[n + 1]>>
    ELSE Decimal(n \div 10) \o <<DigitChars[(n % 10) + 1]>>

\* the context id "c-<n>"
IdOf(n) == <<"c", "-">> \o Decimal(n)

RECURSIVE Strip(_)
\* str.strip()
Strip(s) ==
    IF s = <<>> THEN s
    ELSE IF Head(s) = " " THEN Strip(Tail(s))
    ELSE IF s[Len(s)] = " " THEN Strip(SubSeq(s, 1, Len(s) - 1))
    ELSE s

NoId == <<>>

\* --------------------------------------------------- latest-period selector

RecurrenceFloor == 10

WindowExtensionDays == 10

NoFile == <<"<", "n", "o", " ", "f", "i", "l", "e", ">">>

Returned(ids, baseline) == [status |-> "ok", ids |-> ids, baseline |-> baseline]

Raised == [status |-> "raise", ids |-> {}, baseline |-> NoId]

PeriodContexts(ctxs) == SelectSeq(ctxs, LAMBDA c : c.type = "period")

InstantContexts(ctxs) == SelectSeq(ctxs, LAMBDA c : c.type = "instant")

\* start_date_counter[sd]: the Counter is keyed by the date string
StartDateCount(periods, sd) ==
    Cardinality({ i \in DOMAIN periods : periods[i].start_date = sd })

\* a plausible slip: the floor is off by one, 9 contexts are enough
CandidateDates_off_by_one(periods) ==
    { periods[i].start_date : i \in
        { j \in DOMAIN periods :
            /\ Truthy(periods[j].start_date)
            /\ StartDateCount(periods, periods[j].start_date) >= RecurrenceFloor - 1 } }

\* a plausible slip: the count is not looked at, every start date is a candidate
CandidateDates_no_floor(periods) ==
    { periods[i].start_date : i \in { j \in DOMAIN periods : Truthy(periods[j].start_date) } }

\* candidate_dates: the start-date strings counted at least 10 times
CandidateDates(periods) ==
    { periods[i].start_date : i \in
        { j \in DOMAIN periods :
            /\ Truthy(periods[j].start_date)
            /\ StartDateCount(periods, periods[j].start_date) >= RecurrenceFloor } }

MaxOf(S) == CHOOSE x \in S : \A y \in S : y <= x

\* a plausible slip: the baseline is looked for among all the periods
BaselinePeriods_all(periods, start_str) == periods

\* baseline_periods: the periods whose start_date string equals the baseline's
BaselinePeriods(periods, start_str) ==
    SelectSeq(periods, LAMBDA c : c.start_date = start_str)

\* max(baseline_periods, key=parse_end_date): the first one with the latest end
BaselinePeriod(bp) ==
    bp[CHOOSE i \in DOMAIN bp :
          /\ \A j \in DOMAIN bp : strptime(bp[j].end_date) <= strptime(bp[i].end_date)
          /\ \A j \in 1..(i - 1) : strptime(bp[j].end_date) < strptime(bp[i].end_date)]

\* a plausible slip: the window is not extended
ExtendedEnd_none(base_end) == base_end

\* extended_end_dt = base_end_dt + timedelta(days=10)
ExtendedEnd(base_end) == base_end + WindowExtensionDays

\* base_start_dt <= d <= extended_end_dt
InWindow(d, base_start, extended_end) == base_start <= d /\ d <= extended_end

\* included_instants
IncludedInstants(instants, base_start, extended_end) ==
    { instants[i].id : i \in
        { j \in DOMAIN instants :
            /\ Parses(instants[j].date)
            /\ InWindow(strptime(instants[j].date), base_start, extended_end) } }

\* included_periods
IncludedPeriods(periods, base_start, extended_end) ==
    { periods[i].id : i \in
        { j \in DOMAIN periods :
            /\ Parses(periods[j].start_date)
            /\ Parses(periods[j].end_date)
            /\ \/ InWindow(strptime(periods[j].start_date), base_start, extended_end)
               \/ InWindow(strptime(periods[j].end_date), base_start, extended_end) } }

\* a plausible slip: with no start date counted 10 times, fall back to the
\* period with the latest end date instead of returning the empty list
extract_latest_context_fallback(file) ==
    IF file = NoFile THEN Returned({}, NoId)
    ELSE
    LET periods == PeriodContexts(file)
        instants == InstantContexts(file)
        candidate_dates == CandidateDates(periods)
        dated == SelectSeq(periods, LAMBDA c : Parses(c.start_date) /\ Parses(c.end_date))
        pool == IF candidate_dates = {} THEN dated
                ELSE BaselinePeriods(periods,
                        strftime(MaxOf({ strptime(sd) :
                            sd \in { d \in candidate_dates : Parses(d) } })))
    IN  IF pool = <<>> \/ \E i \in DOMAIN pool : ~Parses(pool[i].end_date)
        THEN Returned({}, NoId)
        ELSE
        LET baseline == BaselinePeriod(pool)
            base_start == strptime(baseline.start_date)
            extended_end == ExtendedEnd(strptime(baseline.end_date))
        IN  Returned({baseline.id}
                        \cup IncludedInstants(instants, base_start, extended_end)
                        \cup IncludedPeriods(periods, base_start, extended_end),
                     baseline.id)

\* FinancialTranslator._extract_latest_context on the entries of the file
extract_latest_context(file) ==
    IF file = NoFile THEN Returned({}, NoId)
    ELSE
    LET periods == PeriodContexts(file)
        instants == InstantContexts(file)
        candidate_dates == CandidateDates(periods)
    IN  IF candidate_dates = {} THEN Returned({}, NoId)
        ELSE IF \E sd \in candidate_dates : ~Parses(sd) THEN Raised
        ELSE
        LET baseline_start_date_str ==
                strftime(MaxOf({ strptime(sd) : sd \in candidate_dates }))
            baseline_periods == BaselinePeriods(periods, baseline_start_date_str)
        IN  IF baseline_periods = <<>> THEN Returned({}, NoId)
            ELSE IF \E i \in DOMAIN baseline_periods :
                        ~Parses(baseline_periods[i].end_date) THEN Raised
            ELSE
            LET baseline == BaselinePeriod(baseline_periods)
                base_start == strptime(baseline.start_date)
                extended_end == ExtendedEnd(strptime(baseline.end_date))
            IN  Returned({baseline.id}
                            \cup IncludedInstants(instants, base_start, extended_end)
                            \cup IncludedPeriods(periods, base_start, extended_end),
                         baseline.id)

\* ----------------------------------------------------- filter and translate

\* 'Abstract' in tag
AbstractWord == <<"A","b","s","t","r","a","c","t">>

\* sub in s
HasSubstring(s, sub) ==
    \E i \in 1..(Len(s) - Len(sub) + 1) : SubSeq(s, i, i + Len(sub) - 1) = sub

\* latest_context_ids = {ctx['id'].strip().lower() for ctx in latest_contexts}
LatestContextIds(latest) == { Lower(Strip(id)) : id \in latest.ids }

\* a plausible slip: the unit is left out of the key
DataPointKey_no_unit(dp) ==
    <<dp.value, dp.decimals, dp.context, dp.axis, dp.members,
      dp.period.start_date, dp.period.end_date>>

\* data_point_key
DataPointKey(dp) ==
    <<dp.value, dp.unit, dp.decimals, dp.context, dp.axis, dp.members,
      dp.period.start_date, dp.period.end_date>>

RECURSIVE FilterDataPoints_forgetful(_, _, _)
\* a plausible slip: a repeated key is taken out of unique_data_points again,
\* so that its next repetition is kept
FilterDataPoints_forgetful(data, ids, seen) ==
    IF data = <<>> THEN <<>>
    ELSE LET dp == Head(data)
         IN  IF Lower(Strip(dp.context)) \notin ids
             THEN FilterDataPoints_forgetful(Tail(data), ids, seen)
             ELSE IF DataPointKey(dp) \in seen
             THEN FilterDataPoints_forgetful(Tail(data), ids, seen \ {DataPointKey(dp)})
             ELSE <<dp>> \o FilterDataPoints_forgetful(Tail(data), ids,
                                                      seen \cup {DataPointKey(dp)})

RECURSIVE FilterDataPoints_unfiltered(_, _, _)
\* a plausible slip: the context test is left out, only repeats are dropped
FilterDataPoints_unfiltered(data, ids, seen) ==
    IF data = <<>> THEN <<>>
    ELSE LET dp == Head(data)
         IN  IF DataPointKey(dp) \notin seen
             THEN <<dp>> \o FilterDataPoints_unfiltered(Tail(data), ids,
                                                       seen \cup {DataPointKey(dp)})
             ELSE FilterDataPoints_unfiltered(Tail(data), ids, seen)

RECURSIVE FilterDataPoints(_, _, _)
\* the data points of one node whose context is selected, without repeats;
\* seen is unique_data_points
FilterDataPoints(data, ids, seen) ==
    IF data = <<>> THEN <<>>
    ELSE LET dp == Head(data)
         IN  IF Lower(Strip(dp.context)) \in ids /\ DataPointKey(dp) \notin seen
             THEN <<dp>> \o FilterDataPoints(Tail(data), ids, seen \cup {DataPointKey(dp)})
             ELSE FilterDataPoints(Tail(data), ids, seen)

\* a plausible slip: the context test is dropped, every data point is kept
FilteredNode_any_context(section, node, ids) ==
    [section |-> section, concept |-> node.concept,
     data |-> FilterDataPoints(node.data,
                               { Lower(Strip(node.data[i].context)) : i \in DOMAIN node.data },
                               {})]

\* one entry of items_to_translate, before the test that its data is not empty
FilteredNode(section, node, ids) ==
    [section |-> section, concept |-> node.concept,
     data |-> FilterDataPoints(node.data, ids, {})]

RECURSIVE ItemsOfNodes(_, _, _)
ItemsOfNodes(section, nodes, ids) ==
    IF nodes = <<>> THEN <<>>
    ELSE LET node == Head(nodes)
             item == FilteredNode(section, node, ids)
             rest == ItemsOfNodes(section, Tail(nodes), ids)
         IN  IF node.concept = <<>> \/ HasSubstring(node.concept, AbstractWord)
             THEN rest
             ELSE IF item.data # <<>> THEN <<item>> \o rest ELSE rest

RECURSIVE ItemsOfLists(_, _, _)
ItemsOfLists(section, lists, ids) ==
    IF lists = <<>> THEN <<>>
    ELSE ItemsOfNodes(section, Head(lists).nodes, ids)
            \o ItemsOfLists(section, Tail(lists), ids)

RECURSIVE ItemsToTranslate(_, _)
\* items_to_translate: the loop over sections, their lists and their nodes
ItemsToTranslate(hierarchy, ids) ==
    IF hierarchy = <<>> THEN <<>>
    ELSE ItemsOfLists(Head(hierarchy).name, Head(hierarchy).lists, ids)
            \o ItemsToTranslate(Tail(hierarchy), ids)

\* ------------------------------------------------------- translator inputs

Period(id, sd, ed) ==
    [id |-> id, type |-> "period", start_date |-> sd, end_date |-> ed, date |-> Absent]

Instant(id, d) ==
    [id |-> id, type |-> "instant", start_date |-> Absent, end_date |-> Absent, date |-> d]

\* the periods a filing repeats over many contexts: <<start_date, end_date>>
BlockKinds ==
    << <<Iso(100), Iso(191)>>,            \* a quarter of 91 days
       <<Iso(100), Iso(465)>>,            \* a year from the same start
       <<Iso(300), Iso(391)>>,            \* a later quarter
       <<Iso(300), Iso(330)>>,            \* a month from the later start
       <<Iso(100), Iso(80)>>,             \* ends more than 10 days before it starts
       <<DateStr("loose", 300), Iso(391)>>,  \* the later quarter, start unpadded
       <<DateStr("bad", 0), Iso(191)>> >>  \* a start date that does not parse

\* how often a block is repeated
RepeatChoices == {1} \cup ((RecurrenceFloor - 1) .. MaxRepeat)

\* one-off contexts: <<type, start_date or date, end_date>>
ExtraKinds ==
    { <<"instant", Iso(100), Absent>>,      \* on the baseline start
      <<"instant", Iso(201), Absent>>,      \* 10 days after the quarter's end
      <<"instant", Iso(202), Absent>>,      \* 11 days after the quarter's end
      <<"instant", DateStr("bad", 0), Absent>>,
      <<"period", Iso(9), Iso(100)>>,       \* a quarter ending on the baseline start
      <<"period", Iso(201), Iso(300)>>,     \* starts on the last day of the window
      <<"period", Iso(20), Iso(60)>>,       \* ends before the window
      <<"period", Iso(100), DateStr("bad", 0)>>,
      <<"period", Iso(150), DateStr("empty", 0)>> }

\* the context entry of kind k under id number n
BlockEntry(k, n) == Period(IdOf(n), k[1], k[2])

ExtraEntry(k, n) ==
    IF k[1] = "instant" THEN Instant(IdOf(n), k[2]) ELSE Period(IdOf(n), k[2], k[3])

\* n entries of kind k, numbered from first
Block(k, n, first) == [i \in 1..n |-> BlockEntry(k, first + i - 1)]

\* a set of kinds as a sequence of entries, numbered from first
RECURSIVE ExtrasSeq(_, _)
ExtrasSeq(ks, first) ==
    IF ks = {} THEN <<>>
    ELSE LET k == CHOOSE x \in ks : TRUE
         IN  <<ExtraEntry(k, first)>> \o ExtrasSeq(ks \ {k}, first + 1)

Reverse(s) == [i \in 1..Len(s) |-> s[Len(s) + 1 - i]]

\* a context map: two repeated blocks and some one-off contexts
ContextMap(ka, na, kb, nb, extras) ==
    Block(ka, na, 1) \o Block(kb, nb, na + 1) \o ExtrasSeq(extras, na + nb + 1)

DataPoint(value, context) ==
    [value |-> value, unit |-> "usd", decimals |-> "-6", context |-> context,
     axis |-> <<>>, members |-> <<>>,
     period |-> [start_date |-> "", end_date |-> ""]]

\* a data point of a context with a segment
SegmentPoint(value, context) ==
    [DataPoint(value, context) EXCEPT !.axis = <<"Seg">>, !.members = <<"M">>]

RevConcept == <<"u","s","-","g","a","a","p","_","R","e","v">>

CostConcept == <<"u","s","-","g","a","a","p","_","C","o","s","t">>

AbstractConcept == <<"u","s","-","g","a","a","p","_","I","s","A","b","s","t","r","a","c","t">>

\* hierarchy.json: sections in file order, each a list of parent entries, each
\* holding the child nodes of one parent
HierarchyInputs ==
    { <<>>,
      << [name |-> "Income",
          lists |-> << [parent |-> AbstractConcept,
                        nodes |-> << [concept |-> AbstractConcept,
                                      data |-> <<DataPoint("5", IdOf(1))>>],
                                     [concept |-> RevConcept,
                                      data |-> <<DataPoint("7", IdOf(1)),
                                                 DataPoint("7", IdOf(1)),
                                                 DataPoint("8", <<" ","C","-","2"," ">>),
                                                 DataPoint("9", IdOf(99)),
                                                 SegmentPoint("7", IdOf(1))>>] >>] >>],
         [name |-> "Balance",
          lists |-> << [parent |-> AbstractConcept,
                        nodes |-> << [concept |-> CostConcept,
                                      data |-> <<DataPoint("3", IdOf(21)),
                                                 DataPoint("4", IdOf(20))>>] >>] >>] >> }

\* ------------------------------------------------- translate_recent_statements

SelInit ==
    /\ NsIdle
    /\ LlmIdle
    /\ PipeIdle
    /\ MainIdle
    /\ DocIdle
    /\ FactIdle
    /\ DedupIdle
    /\ PreIdle
    /\ RoleIdle
    /\ \/ contexts = NoFile
       \/ \E ia \in DOMAIN BlockKinds, na \in RepeatChoices, nb \in RepeatChoices :
          \E ib \in ia..Len(BlockKinds) :
          \E extras \in { e \in SUBSET ExtraKinds : Cardinality(e) <= MaxExtras } :
          \E reversed \in BOOLEAN :
             LET map == ContextMap(BlockKinds[ia], na, BlockKinds[ib], nb, extras)
             IN  contexts = IF reversed THEN Reverse(map) ELSE map
    /\ hierarchy_data = <<>>
    /\ latest_contexts = [status |-> "none", ids |-> {}, baseline |-> NoId]
    /\ translated_data = <<>>
    /\ pc = "start"

\* hierarchy.json: the file create_hierarchy_json wrote when it has run
HierarchyFiles ==
    IF hierarchy_json.status = "ok" THEN {hierarchy_json.sections} ELSE HierarchyInputs

\* self.hierarchy_data = self._load_hierarchy(); an empty one ends the run
LoadHierarchy ==
    /\ pc = "start"
    /\ \E h \in HierarchyFiles :
          /\ hierarchy_data' = h
          /\ pc' = IF h = <<>> THEN "done" ELSE "loaded"
    /\ UNCHANGED <<contexts, latest_contexts, translated_data, nsVars, docVars,
                   factVars, dedupVars, llmVars, pipeVars, mainVars, preVars, roleVars>>

\* _filter_and_translate, line 527: latest_contexts = self._extract_latest_context();
\* an exception leaves _filter_and_translate and is caught by the caller
ExtractLatestContext ==
    /\ pc = "loaded"
    /\ latest_contexts' = extract_latest_context(contexts)
    /\ pc' = IF latest_contexts'.status = "raise" THEN "failed" ELSE "selected"
    /\ UNCHANGED <<contexts, hierarchy_data, translated_data, nsVars, docVars,
                   factVars, dedupVars, llmVars, pipeVars, mainVars, preVars, roleVars>>

\* member_translations.get(member, member): the translation when the
\* service gave one, the member itself otherwise; a text is told from its
\* translation by its language
TranslateMember(member, known) ==
    [text |-> member, language |-> IF known THEN "ko" ELSE "source"]

\* a plausible slip: the translations are written into the data point itself
TranslatePoint_in_place(dp, known) ==
    LET written == IF dp.members # <<>>
                   THEN dp @@ ("members_translated" :>
                                  [i \in DOMAIN dp.members |-> TranslateMember(dp.members[i], known)])
                   ELSE dp
    IN  [source |-> written, result |-> written]

\* _translate_batch, lines 396-406, on one data point: source is the data
\* point object the hierarchy holds, as the lines leave it, and result the
\* translated_point; the translations are written into a copy
TranslatePoint(dp, known) ==
    [source |-> dp,
     result |-> IF dp.members # <<>>
                THEN dp @@ ("members_translated" :>
                               [i \in DOMAIN dp.members |-> TranslateMember(dp.members[i], known)])
                ELSE dp]

\* translated_items: every item with its translated points
translate_batch(items, known) ==
    [i \in DOMAIN items |->
        [section |-> items[i].section, concept |-> items[i].concept,
         data |-> [j \in DOMAIN items[i].data |-> TranslatePoint(items[i].data[j], known).result]]]

\* the data point at j is appended to filtered_data_points: its context is
\* selected and no selected point before it has its key
PassedOn(data, ids, j) ==
    /\ Lower(Strip(data[j].context)) \in ids
    /\ \A i \in 1..(j - 1) :
          Lower(Strip(data[i].context)) \in ids => DataPointKey(data[i]) # DataPointKey(data[j])

\* the data points of a node after _translate_batch; filtered_data_points
\* holds the very objects of the hierarchy
NodeAfterTranslation(node, ids, known) ==
    IF node.concept = <<>> \/ HasSubstring(node.concept, AbstractWord) THEN node
    ELSE [node EXCEPT !.data = [j \in DOMAIN node.data |->
                                   IF PassedOn(node.data, ids, j)
                                   THEN TranslatePoint(node.data[j], known).source
                                   ELSE node.data[j]]]

\* self.hierarchy_data after _translate_batch
HierarchyAfterTranslation(hierarchy, ids, known) ==
    [s \in DOMAIN hierarchy |->
        [hierarchy[s] EXCEPT !.lists = [l \in DOMAIN hierarchy[s].lists |->
            [hierarchy[s].lists[l] EXCEPT !.nodes = [n \in DOMAIN hierarchy[s].lists[l].nodes |->
                NodeAfterTranslation(hierarchy[s].lists[l].nodes[n], ids, known)]]]]]

\* the rest of _filter_and_translate: the items are filtered and, when there
\* are any, translated by the external service, which may fail for the batch
\* before a data point is touched
FilterAndTranslate ==
    /\ pc = "selected"
    /\ LET ids == LatestContextIds(latest_contexts)
           items == ItemsToTranslate(hierarchy_data, ids)
       IN  IF items = <<>>
           THEN /\ translated_data' = <<>>
                /\ hierarchy_data' = hierarchy_data
           ELSE \E translated \in BOOLEAN, known \in BOOLEAN :
                   IF translated
                   THEN /\ translated_data' = translate_batch(items, known)
                        /\ hierarchy_data' = HierarchyAfterTranslation(hierarchy_data, ids, known)
                   ELSE /\ translated_data' = <<>>
                        /\ hierarchy_data' = hierarchy_data
    /\ pc' = "done"
    /\ UNCHANGED <<contexts, latest_contexts, nsVars, docVars,
                   factVars, dedupVars, llmVars, pipeVars, mainVars, preVars, roleVars>>

SelNext == LoadHierarchy \/ ExtractLatestContext \/ FilterAndTranslate

SpecSel == SelInit /\ [][SelNext]_vars

\* Durations that are no quarter (their length is outside 85..93 days)
OtherKinds ==
    { <<Iso(100), Iso(465)>>,     \* a year from the quarter's start
      <<Iso(100), Iso(130)>>,     \* a month from the quarter's start
      <<Iso(150), Iso(160)>>,     \* inside the quarter
      <<Iso(195), Iso(260)>>,     \* starts within 10 days after the quarter's end
      <<Iso(202), Iso(260)>>,     \* starts 11 days after the quarter's end
      <<Iso(0), Iso(100)>>,       \* 100 days ending on the quarter's start
      <<Iso(20), Iso(60)>> }      \* ends before the quarter

\* the twelve contexts of the 91-day quarter
TwelveQuarters == Block(<<Iso(100), Iso(191)>>, 12, 1)

\* twelve contexts of one 91-day quarter and nine other Durations
Sel3Init ==
    /\ NsIdle
    /\ LlmIdle
    /\ PipeIdle
    /\ MainIdle
    /\ DocIdle
    /\ FactIdle
    /\ DedupIdle
    /\ PreIdle
    /\ RoleIdle
    /\ \E k1 \in OtherKinds, k2 \in OtherKinds, k3 \in OtherKinds :
       \E reversed \in BOOLEAN :
          LET map == TwelveQuarters \o Block(k1, 4, 13) \o Block(k2, 4, 17)
                        \o Block(k3, 1, 21)
          IN  contexts = IF reversed THEN Reverse(map) ELSE map
    /\ hierarchy_data = <<>>
    /\ latest_contexts = [status |-> "none", ids |-> {}, baseline |-> NoId]
    /\ translated_data = <<>>
    /\ pc = "start"

SpecSel3 == Sel3Init /\ [][SelNext]_vars

\* --------------------------------------------------------- context resolvers

\* how often c occurs in s
CountChar(s, c) == Cardinality({ i \in 1..Len(s) : s[i] = c })

\* s.endswith(p)
EndsWith(s, p) == Len(s) >= Len(p) /\ SubSeq(s, Len(s) - Len(p) + 1, Len(s)) = p

MemberWord == <<"M","e","m","b","e","r">>

\* prefix, name = s.split(':') raises ValueError unless s holds exactly one ':'
UnpackRaises(s) == CountChar(s, ":") > 1

\* the name appended for s: the part after the colon, or s itself
LocalName(s) == IF Contains(s, ":") THEN SplitRest(s, ":") ELSE s

\* get_xbrl_data, lines 152-172: some explicitMember of the segment makes
\* the two-name unpacking of split(':') raise
SegmentRaises(segment) ==
    \E i \in DOMAIN segment :
        UnpackRaises(segment[i].dimension) \/ UnpackRaises(Strip(segment[i].value))

\* the period entry of context_info (the texts are stored as they are)
PeriodInfo(e) ==
    IF e.period = "instant" THEN [type |-> "instant", date |-> e.date,
                                  start_date |-> Absent, end_date |-> Absent]
    ELSE IF e.period = "duration" THEN [type |-> "period", date |-> Absent,
                                        start_date |-> e.start_date,
                                        end_date |-> e.end_date]
    ELSE [type |-> "", date |-> Absent, start_date |-> Absent, end_date |-> Absent]

\* context_info of one <context> element whose segment does not raise
ContextInfo(e) ==
    [id |-> e.id,
     period |-> PeriodInfo(e),
     axis |-> [i \in DOMAIN e.segment |-> LocalName(e.segment[i].dimension)],
     members |-> [i \in DOMAIN e.segment |-> LocalName(Strip(e.segment[i].value))],
     explicit_members |->
         SelectSeq([i \in DOMAIN e.segment |-> LocalName(Strip(e.segment[i].value))],
                   LAMBDA m : EndsWith(m, MemberWord))]

\* get_xbrl_data, lines 119-174 with the handler of lines 217-219: every
\* context is stored, and an exception in any of them ends the whole call
xbrl_contexts(doc) ==
    IF \E i \in DOMAIN doc : SegmentRaises(doc[i].segment)
    THEN [status |-> "failed", map |-> <<>>]
    ELSE [status |-> "ok", map |-> [i \in DOMAIN doc |-> ContextInfo(doc[i])]]

\* ------------------------------------------------------- fact extractor

\* an attribute the element does not carry
NoAttr == <<"<", "n", "o", " ", "a", "t", "t", "r", ">">>

\* element.get(name, default)
AttrOr(v, default) == IF v = NoAttr THEN default ELSE v

\* context_data[context_ref]: the entry stored last under the id
ContextInfoOf(map, id) ==
    map[CHOOSE i \in DOMAIN map :
           map[i].id = id /\ \A j \in (i + 1)..Len(map) : map[j].id # id]

\* the period of a data point whose context is not resolved (no 'period' key)
NoPeriod == [type |-> "", date |-> Absent, start_date |-> Absent, end_date |-> Absent]

\* the text is a number written in digits
IsNumericText(t) == t # <<>> /\ \A i \in DOMAIN t : \E j \in DOMAIN DigitChars : DigitChars[j] = t[i]

RECURSIVE NumberOf(_)
\* the number a text of digits stands for
NumberOf(t) ==
    IF t = <<>> THEN 0
    ELSE 10 * NumberOf(SubSeq(t, 1, Len(t) - 1))
            + ((CHOOSE j \in DOMAIN DigitChars : DigitChars[j] = t[Len(t)]) - 1)

RECURSIVE Pow10(_)
Pow10(k) == IF k = 0 THEN 1 ELSE 10 * Pow10(k - 1)

\* the scale a decimals text "-k" asks for, 0 for any other text
ScaleOf(d) ==
    IF Len(d) >= 2 /\ d[1] = "-" /\ IsNumericText(Tail(d)) THEN NumberOf(Tail(d)) ELSE 0

RECURSIVE PadZeros(_, _)
PadZeros(t, k) == IF Len(t) < k THEN PadZeros(<<"0">> \o t, k) ELSE t

RECURSIVE TrimZeros(_)
TrimZeros(t) ==
    IF t # <<>> /\ t[Len(t)] = "0" THEN TrimZeros(SubSeq(t, 1, Len(t) - 1)) ELSE t

\* the raw value divided by 10^k for decimals -k, written as a decimal
\* number; a raw value that is no number, or any other decimals, as it is
ScaledText(raw, d) ==
    IF ~IsNumericText(raw) \/ ScaleOf(d) = 0 THEN raw
    ELSE LET q == NumberOf(raw) \div Pow10(ScaleOf(d))
             r == NumberOf(raw) % Pow10(ScaleOf(d))
         IN  IF r = 0 THEN Decimal(q)
             ELSE Decimal(q) \o <<".">> \o TrimZeros(PadZeros(Decimal(r), ScaleOf(d)))

\* a plausible slip: the value is divided by the power of ten decimals names
DataPointOf_scaled(e, map) ==
    LET context_ref == AttrOr(e.contextref, <<>>)
        value == Strip(e.text)
        decimals == AttrOr(e.decimals, <<"0">>)
        resolved == \E i \in DOMAIN map : map[i].id = context_ref
    IN  [value |-> ScaledText(value, decimals), display_value |-> value,
         context |-> context_ref,
         unit |-> AttrOr(e.unitref, <<>>), decimals |-> decimals,
         raw_value |-> value, source |-> "xbrl", resolved |-> resolved,
         axis |-> IF resolved THEN ContextInfoOf(map, context_ref).axis ELSE <<>>,
         members |-> IF resolved THEN ContextInfoOf(map, context_ref).members ELSE <<>>,
         explicit_members |->
             IF resolved THEN ContextInfoOf(map, context_ref).explicit_members ELSE <<>>,
         period |-> IF resolved THEN ContextInfoOf(map, context_ref).period ELSE NoPeriod]

\* get_xbrl_data, lines 182-206: the data point of one us-gaap element;
\* resolved tells whether the keys axis, members, explicit_members and
\* period were added from context_data
DataPointOf(e, map) ==
    LET context_ref == AttrOr(e.contextref, <<>>)
        value == Strip(e.text)
        resolved == \E i \in DOMAIN map : map[i].id = context_ref
    IN  [value |-> value, display_value |-> value, context |-> context_ref,
         unit |-> AttrOr(e.unitref, <<>>), decimals |-> AttrOr(e.decimals, <<"0">>),
         raw_value |-> value, source |-> "xbrl", resolved |-> resolved,
         axis |-> IF resolved THEN ContextInfoOf(map, context_ref).axis ELSE <<>>,
         members |-> IF resolved THEN ContextInfoOf(map, context_ref).members ELSE <<>>,
         explicit_members |->
             IF resolved THEN ContextInfoOf(map, context_ref).explicit_members ELSE <<>>,
         period |-> IF resolved THEN ContextInfoOf(map, context_ref).period ELSE NoPeriod]

RECURSIVE FactsOf(_, _)
\* self.xbrl_data: the data points of the us-gaap elements in document
\* order, each with the key it is appended under
FactsOf(elements, map) ==
    IF elements = <<>> THEN <<>>
    ELSE LET e == Head(elements)
             rest == FactsOf(Tail(elements), map)
         IN  IF FactTagName(e.name) = NoKey THEN rest
             ELSE <<[key |-> FactTagName(e.name), point |-> DataPointOf(e, map)]>> \o rest

\* get_xbrl_data as a whole: an exception in the context loop leaves the
\* method through the handler of lines 217-219, which returns (None, None)
xbrl_facts(elements, ctx) ==
    IF ctx.status = "failed" THEN [status |-> "failed", facts |-> <<>>]
    ELSE [status |-> "ok", facts |-> FactsOf(elements, ctx.map)]

\* xbrl_data[key]: the data points appended under the key, in order
PointsUnder(data, key) ==
    LET hits == SelectSeq(data.facts, LAMBDA f : f.key = key)
    IN  [i \in DOMAIN hits |-> hits[i].point]

IsDigit(c) == \E i \in DOMAIN DigitChars : DigitChars[i] = c

\* re.match(r'^c-\d+$', ctx_id)
MatchesCNumber(id) ==
    /\ Len(id) >= 3
    /\ id[1] = "c"
    /\ id[2] = "-"
    /\ \A i \in 3..Len(id) : IsDigit(id[i])

DigitValue(c) == (CHOOSE i \in DOMAIN DigitChars : DigitChars[i] = c) - 1

RECURSIVE ParseInt(_)
\* int(s) for a string of digits
ParseInt(s) ==
    IF s = <<>> THEN 0
    ELSE 10 * ParseInt(SubSeq(s, 1, Len(s) - 1)) + DigitValue(s[Len(s)])

\* int(x[0].split('-')[1])
ContextNumber(id) == ParseInt(SplitSecond(id, "-"))

\* the entry create_context_period_mapping stores for an element, if any
MappingEntries(e) ==
    IF ~MatchesCNumber(e.id) \/ e.period = "missing" THEN <<>>
    ELSE IF e.period = "instant" THEN <<Instant(e.id, e.date)>>
    ELSE IF e.period = "duration" THEN <<Period(e.id, e.start_date, e.end_date)>>
    ELSE <<>>

RECURSIVE MappingOf(_)
\* context_periods, in document order
MappingOf(doc) ==
    IF doc = <<>> THEN <<>> ELSE MappingEntries(Head(doc)) \o MappingOf(Tail(doc))

RECURSIVE SortedByNumber(_)
\* dict(sorted(context_periods.items(), key=lambda x: int(x[0].split('-')[1])))
SortedByNumber(entries) ==
    IF entries = <<>> THEN <<>>
    ELSE LET i == CHOOSE k \in DOMAIN entries :
                    /\ \A j \in DOMAIN entries :
                          ContextNumber(entries[k].id) <= ContextNumber(entries[j].id)
                    /\ \A j \in 1..(k - 1) :
                          ContextNumber(entries[j].id) > ContextNumber(entries[k].id)
         IN  <<entries[i]>>
                \o SortedByNumber(SubSeq(entries, 1, i - 1)
                                    \o SubSeq(entries, i + 1, Len(entries)))

\* utils.create_context_period_mapping on the <context> elements of an XML
\* instance (its second pass looks for class attributes, which they lack)
context_period_mapping(doc) == SortedByNumber(MappingOf(doc))

\* ------------------------------------------------------ resolver inputs

GoodSegment ==
    << [dimension |-> <<"d",":","A","x">>,
        value |-> <<" ","a",":","F","o","M","e","m","b","e","r"," ">>] >>

\* an explicitMember whose dimension holds two colons
BadSegment == << [dimension |-> <<"d",":","A",":","x">>, value |-> <<"a",":","M">>] >>

SegmentInputs == { <<>>, GoodSegment, BadSegment }

\* the period of a <context>: <<kind, date or startDate text, endDate text>>
PeriodInputs ==
    { <<"missing", Absent, Absent>>,
      <<"instant", Iso(191), Absent>>,
      <<"duration", Iso(100), Iso(191)>>,
      <<"duration", Iso(100), Iso(80)>>,             \* ends before it starts
      <<"duration", Iso(100), DateStr("bad", 0)>>,   \* an end date that is no date
      <<"startonly", Iso(100), Absent>> }            \* no endDate element

\* ids of the form c-<n>, and ids of another form
IdInputs(n) == { IdOf(n), <<"x","-">> \o Decimal(n) }

Element(id, p, seg) ==
    [id |-> id, period |-> p[1],
     date |-> IF p[1] = "instant" THEN p[2] ELSE Absent,
     start_date |-> IF p[1] \in {"duration", "startonly"} THEN p[2] ELSE Absent,
     end_date |-> IF p[1] = "duration" THEN p[3] ELSE Absent,
     segment |-> seg]

\* the element at position i of a document of n, numbered up or down
ElementInputs(i, n, descending) ==
    { Element(id, p, seg) :
        id \in IdInputs(IF descending THEN n + 1 - i ELSE i),
        p \in PeriodInputs, seg \in SegmentInputs }

DocInit ==
    /\ NsIdle
    /\ LlmIdle
    /\ PipeIdle
    /\ MainIdle
    /\ FactIdle
    /\ DedupIdle
    /\ PreIdle
    /\ RoleIdle
    /\ \E n \in 1..MaxDocContexts, descending \in BOOLEAN :
          /\ instance_doc \in [1..n -> UNION { ElementInputs(i, n, descending) : i \in 1..n }]
          /\ \A i \in 1..n : instance_doc[i] \in ElementInputs(i, n, descending)
    /\ context_data = [status |-> "none", map |-> <<>>]
    /\ contexts = NoFile
    /\ hierarchy_data = <<>>
    /\ latest_contexts = [status |-> "none", ids |-> {}, baseline |-> NoId]
    /\ translated_data = <<>>
    /\ pc = "fetched"

\* get_xbrl_data: the context loop, then the loop over the us-gaap elements
GetXbrlDataContexts ==
    /\ pc = "fetched"
    /\ context_data.status = "none"
    /\ context_data' = xbrl_contexts(instance_doc)
    /\ xbrl_data' = xbrl_facts(instance_facts, xbrl_contexts(instance_doc))
    /\ UNCHANGED <<instance_doc, instance_facts, selVars, nsVars,
                   dedupVars, llmVars, pipeVars, mainVars, preVars, roleVars>>

\* create_context_period_mapping writes context_data.json; the translator
\* may start after it
CreateContextPeriodMapping ==
    /\ pc = "fetched"
    /\ contexts' = context_period_mapping(instance_doc)
    /\ pc' = "start"
    /\ UNCHANGED <<instance_doc, context_data, hierarchy_data, latest_contexts,
                   translated_data, nsVars, factVars, dedupVars, llmVars, pipeVars,
                   mainVars, preVars, roleVars>>

DocNext == GetXbrlDataContexts \/ CreateContextPeriodMapping \/ SelNext

SpecDoc == DocInit /\ [][DocNext]_vars

\* ------------------------------------------- the filter-and-dedup loop

\* a data point of hierarchy.json; its period is the period of its context
\* (empty when get_xbrl_data resolved no context for it)
NodePoint(value, unit, decimals, context, axis, members) ==
    [value |-> value, unit |-> unit, decimals |-> decimals, context |-> context,
     axis |-> axis, members |-> members,
     period |-> IF context = IdOf(1) THEN [start_date |-> Iso(100), end_date |-> Iso(191)]
                ELSE IF context = IdOf(2) THEN [start_date |-> Iso(100), end_date |-> Iso(130)]
                ELSE [start_date |-> Absent, end_date |-> Absent]]

\* one data point and the points that differ from it in one field
NodePointInputs ==
    { NodePoint("7", "usd", "-6", IdOf(1), <<>>, <<>>),
      NodePoint("8", "usd", "-6", IdOf(1), <<>>, <<>>),
      NodePoint("7", "shares", "-6", IdOf(1), <<>>, <<>>),
      NodePoint("7", "usd", "0", IdOf(1), <<>>, <<>>),
      NodePoint("7", "usd", "-6", IdOf(2), <<>>, <<>>),
      NodePoint("7", "usd", "-6", <<" ", "C", "-", "1", " ">>, <<>>, <<>>),
      NodePoint("7", "usd", "-6", IdOf(9), <<>>, <<>>),
      NodePoint("7", "usd", "-6", IdOf(1), <<"Seg">>, <<>>),
      NodePoint("7", "usd", "-6", IdOf(1), <<>>, <<"M">>) }

\* the contexts c-1 and c-2 are selected
DedupInit ==
    /\ NsIdle
    /\ LlmIdle
    /\ PipeIdle
    /\ MainIdle
    /\ DocIdle
    /\ FactIdle
    /\ PreIdle
    /\ RoleIdle
    /\ contexts = <<>>
    /\ hierarchy_data = <<>>
    /\ latest_contexts = Returned({IdOf(1), IdOf(2)}, IdOf(1))
    /\ translated_data = <<>>
    /\ pc = "idle"
    /\ \E n \in 1..MaxPoints : dpList \in [1..n -> NodePointInputs]
    /\ dedupOut = <<>>

\* the loop of lines 545-567 over the data points of one node, applied to
\* the node's list and then to its own result
FilterAndDedup ==
    /\ dpList # <<>>
    /\ Len(dedupOut) < MaxApply
    /\ dedupOut' = Append(dedupOut,
                          FilterDataPoints(IF dedupOut = <<>> THEN dpList
                                           ELSE dedupOut[Len(dedupOut)],
                                           LatestContextIds(latest_contexts), {}))
    /\ UNCHANGED <<dpList, nsVars, selVars, docVars, factVars, preVars, roleVars,
                   llmVars, pipeVars, mainVars>>

DedupNext == FilterAndDedup

SpecDedup == DedupInit /\ [][DedupNext]_vars

\* -------------------------------------------------- fact extractor inputs

UsGaapRevenues == <<"u","s","-","g","a","a","p",":","R","e","v","e","n","u","e","s">>

AaplCustom == <<"a","a","p","l",":","C","u","s","t","o","m">>

FactNames == { UsGaapRevenues, AaplCustom }

\* contextRef: a resolved id, an id no context carries, no attribute
FactContextRefs == { IdOf(1), IdOf(9), NoAttr }

BigNumber == <<"1","5","0","0","0","0","0","0","0","0">>

\* <<decimals, text>> of an element
FactValues ==
    { << <<"-","6">>, BigNumber >>,
      << <<"-","9">>, BigNumber >>,
      << <<"2">>, BigNumber >>,
      << NoAttr, <<" ","1","2"," ">> >>,
      << <<"-","6">>, <<" ","N","/","A"," ">> >> }

FactElement(name, context_ref, v) ==
    [name |-> name, contextref |-> context_ref, unitref |-> <<"u","s","d">>,
     decimals |-> v[1], text |-> v[2]]

FactInputs ==
    { FactElement(n, c, v) : n \in FactNames, c \in FactContextRefs, v \in FactValues }

\* the contexts of the document: c-1 alone, well-formed or with a segment
\* whose dimension holds two colons
FactDocs ==
    { << Element(IdOf(1), <<"duration", Iso(100), Iso(191)>>, seg) >> :
         seg \in { GoodSegment, BadSegment } }

FactInit ==
    /\ NsIdle
    /\ LlmIdle
    /\ PipeIdle
    /\ MainIdle
    /\ DedupIdle
    /\ PreIdle
    /\ RoleIdle
    /\ instance_doc \in FactDocs
    /\ \E n \in 1..MaxFacts : instance_facts \in [1..n -> FactInputs]
    /\ xbrl_data = NotFetched
    /\ context_data = [status |-> "none", map |-> <<>>]
    /\ contexts = NoFile
    /\ hierarchy_data = <<>>
    /\ latest_contexts = [status |-> "none", ids |-> {}, baseline |-> NoId]
    /\ translated_data = <<>>
    /\ pc = "fetched"

FactNext == GetXbrlDataContexts

SpecFacts == FactInit /\ [][FactNext]_vars

\* ----------------------------------------------------------- section namer

\* company_patterns, in the order of the dict: <<pattern, company>>
CompanyPatterns ==
    << << <<"a","p","p","l","e",".","c","o","m","/","r","o","l","e","/">>, <<"A","p","p","l","e">> >>,
       << <<"m","i","c","r","o","s","o","f","t",".","c","o","m","/","r","o","l","e","/">>, <<"M","i","c","r","o","s","o","f","t">> >>,
       << <<"a","m","a","z","o","n",".","c","o","m","/","r","o","l","e","/">>, <<"A","m","a","z","o","n">> >>,
       << <<"g","o","o","g","l","e",".","c","o","m","/","r","o","l","e","/">>, <<"G","o","o","g","l","e">> >>,
       << <<"m","e","t","a",".","c","o","m","/","r","o","l","e","/">>, <<"M","e","t","a">> >>,
       << <<"n","v","i","d","i","a",".","c","o","m","/","r","o","l","e","/">>, <<"N","V","I","D","I","A">> >>,
       << <<"/","r","o","l","e","/">>, <<"S","t","a","n","d","a","r","d">> >> >>

Standard == <<"S","t","a","n","d","a","r","d">>

Other == <<"O","t","h","e","r">>

\* suffixes, in the order of the list
Suffixes ==
    << <<"D","e","t","a","i","l","s">>,
       <<"I","n","f","o","r","m","a","t","i","o","n">>,
       <<"D","i","s","c","l","o","s","u","r","e">>,
       <<"T","a","b","l","e">>,
       <<"P","o","l","i","c","y">> >>

\* index of the first occurrence of p in s, 0 when there is none
IndexOf(s, p) ==
    IF HasSubstring(s, p)
    THEN CHOOSE i \in 1..(Len(s) - Len(p) + 1) :
            /\ SubSeq(s, i, i + Len(p) - 1) = p
            /\ \A j \in 1..(i - 1) : SubSeq(s, j, j + Len(p) - 1) # p
    ELSE 0

RECURSIVE SplitLast(_, _)
\* s.split(p)[-1]
SplitLast(s, p) ==
    IF IndexOf(s, p) = 0 THEN s
    ELSE SplitLast(SubSeq(s, IndexOf(s, p) + Len(p), Len(s)), p)

\* the first pattern found in role.lower(), 0 when there is none
MatchedPattern(r) ==
    IF \E k \in DOMAIN CompanyPatterns : HasSubstring(Lower(r), CompanyPatterns[k][1])
    THEN CHOOSE k \in DOMAIN CompanyPatterns :
            /\ HasSubstring(Lower(r), CompanyPatterns[k][1])
            /\ \A j \in 1..(k - 1) : ~HasSubstring(Lower(r), CompanyPatterns[j][1])
    ELSE 0

RECURSIVE StripSuffixes(_, _)
\* the loop over suffixes, from suffix k on
StripSuffixes(section, k) ==
    IF k > Len(Suffixes) THEN section
    ELSE StripSuffixes(IF EndsWith(section, Suffixes[k])
                       THEN SubSeq(section, 1, Len(section) - Len(Suffixes[k]))
                       ELSE section,
                       k + 1)

IsUpper(c) == \E i \in DOMAIN UpperChars : UpperChars[i] = c

IsLower(c) == \E i \in DOMAIN LowerChars : LowerChars[i] = c

IsAlnum(c) == IsUpper(c) \/ IsLower(c) \/ IsDigit(c)

\* how many characters at the start of a text match a character class;
\* matches[i] tells whether the character at i does
RunLength(matches) ==
    CHOOSE n \in 0..Len(matches) :
        /\ \A i \in 1..n : matches[i]
        /\ n = Len(matches) \/ ~matches[n + 1]

RECURSIVE CamelWords(_)
\* re.findall('[A-Z][^A-Z]*|[a-z]+', text)
CamelWords(text) ==
    IF text = <<>> THEN <<>>
    ELSE IF IsUpper(Head(text))
    THEN LET n == 1 + RunLength([i \in 1..(Len(text) - 1) |-> ~IsUpper(text[i + 1])])
         IN  <<SubSeq(text, 1, n)>> \o CamelWords(SubSeq(text, n + 1, Len(text)))
    ELSE IF IsLower(Head(text))
    THEN LET n == RunLength([i \in DOMAIN text |-> IsLower(text[i])])
         IN  <<SubSeq(text, 1, n)>> \o CamelWords(SubSeq(text, n + 1, Len(text)))
    ELSE CamelWords(Tail(text))

RECURSIVE DigitRuns(_)
\* re.findall('[0-9]+|[^0-9]+', word)
DigitRuns(word) ==
    IF word = <<>> THEN <<>>
    ELSE LET n == IF IsDigit(Head(word))
                  THEN RunLength([i \in DOMAIN word |-> IsDigit(word[i])])
                  ELSE RunLength([i \in DOMAIN word |-> ~IsDigit(word[i])])
         IN  <<SubSeq(word, 1, n)>> \o DigitRuns(SubSeq(word, n + 1, Len(word)))

RECURSIVE Flatten(_)
\* processed_words: the runs of all words, in order
Flatten(lists) == IF lists = <<>> THEN <<>> ELSE Head(lists) \o Flatten(Tail(lists))

\* re.sub('[^a-zA-Z0-9]', ' ', word).strip()
CleanWord(word) == Strip([i \in DOMAIN word |-> IF IsAlnum(word[i]) THEN word[i] ELSE " "])

RECURSIVE JoinWords(_)
\* ' '.join(words)
JoinWords(words) ==
    IF words = <<>> THEN <<>>
    ELSE IF Len(words) = 1 THEN words[1]
    ELSE words[1] \o <<" ">> \o JoinWords(Tail(words))

\* clean_section_name
clean_section_name(text) ==
    LET words == CamelWords(text)
        processed_words == Flatten([i \in DOMAIN words |-> DigitRuns(words[i])])
        cleaned_words == [i \in DOMAIN processed_words |-> CleanWord(processed_words[i])]
        final_words == SelectSeq(cleaned_words, LAMBDA w : w # <<>>)
    IN  JoinWords(final_words)

\* a plausible slip: a role no pattern is found in is named after the whole URI
get_section_name_no_fallback(r) ==
    LET k == MatchedPattern(r)
        section == IF k = 0 THEN r ELSE SplitLast(r, CompanyPatterns[k][1])
        company == IF k = 0 THEN Standard ELSE CompanyPatterns[k][2]
    IN  IF section = <<>> THEN Other
        ELSE LET cleaned == clean_section_name(StripSuffixes(section, 1))
             IN  Strip(IF company # Standard THEN company \o <<" ", "-", " ">> \o cleaned
                       ELSE cleaned)

\* SECFetcher.get_section_name
get_section_name(r) ==
    LET k == MatchedPattern(r)
    IN  IF k = 0 THEN Other
        ELSE LET section == SplitLast(r, CompanyPatterns[k][1])
                 company == CompanyPatterns[k][2]
             IN  IF section = <<>> THEN Other
                 ELSE LET cleaned == clean_section_name(StripSuffixes(section, 1))
                      IN  Strip(IF company # Standard
                                THEN company \o <<" ", "-", " ">> \o cleaned
                                ELSE cleaned)

\* ---------------------------------------------------- section namer inputs

RoleHosts ==
    { <<"h","t","t","p",":","/","/","a","p","p","l","e",".","c","o","m">>,
      <<"h","t","t","p",":","/","/","x",".","o","r","g">>,
      <<"h","t","t","p",":","/","/","N","V","I","D","I","A",".","c","o","m">>,
      <<"h","t","t","p",":","/","/","f","a","s","b",".","o","r","g","/","u","s","-","g","a","a","p">>,
      <<>> }

RoleMiddles ==
    { <<"/","r","o","l","e","/">>, <<"/","R","o","l","e","/">>, <<"/","r","o","l","/">>, <<"/","r","o","l","e","s","/">> }

RoleNames ==
    { <<"F","o","o">>,
      <<"F","o","o","D","e","t","a","i","l","s">>,
      <<"f","o","o","B","a","r","2","T","a","b","l","e">>,
      <<"P","o","l","i","c","y">>,
      <<"A","-","b","/","r","o","l","e","/","I","n","c","o","m","e","S","t","a","t","e","m","e","n","t">>,
      <<>> }

RoleInputs == { h \o m \o n : h \in RoleHosts, m \in RoleMiddles, n \in RoleNames }

RoleInit ==
    /\ NsIdle
    /\ LlmIdle
    /\ PipeIdle
    /\ MainIdle
    /\ SelIdle
    /\ DocIdle
    /\ FactIdle
    /\ DedupIdle
    /\ PreIdle
    /\ role \in RoleInputs
    /\ section_name = NotNamed

\* section_name = self.get_section_name(link.get('xlink:role', ''))
GetSectionName ==
    /\ role # <<>>
    /\ section_name = NotNamed
    /\ section_name' = get_section_name(role)
    /\ UNCHANGED <<role, nsVars, selVars, docVars, factVars, dedupVars, llmVars,
                   pipeVars, mainVars, preVars>>

RoleNext == GetSectionName

SpecRole == RoleInit /\ [][RoleNext]_vars

\* ------------------------------------------ presentation hierarchy builder

\* the loc is entered in tag_map: href is not empty and holds '#'
LocMapped(loc) == loc.href # <<>> /\ Contains(loc.href, "#")

\* label in tag_map
InTagMap(locs, label) ==
    \E i \in DOMAIN locs : locs[i].label = label /\ LocMapped(locs[i])

\* tag_map[label]: href.split('#')[-1] of the last loc entered under the label
TagOf(locs, label) ==
    SplitLast(locs[CHOOSE i \in DOMAIN locs :
                      /\ locs[i].label = label /\ LocMapped(locs[i])
                      /\ \A j \in (i + 1)..Len(locs) :
                            ~(locs[j].label = label /\ LocMapped(locs[j]))].href,
              <<"#">>)

\* the data point lines 502-511 build from a data point of xbrl_data
HierarchyPoint(v) ==
    [value |-> v.value, unit |-> v.unit, decimals |-> v.decimals,
     context |-> v.context, axis |-> v.axis, members |-> v.members,
     explicit_members |-> v.explicit_members, period |-> v.period]

\* child_node: every data point stored under search_tag is attached
ChildNode(to_tag, xbrl) ==
    LET points == PointsUnder(xbrl, SearchTag(to_tag))
    IN  [concept |-> to_tag,
         data |-> [i \in DOMAIN points |-> HierarchyPoint(points[i])]]

\* section_name in hierarchy
HasSection(h, name) == \E i \in DOMAIN h : h[i].name = name

\* a plausible slip: a section is opened for every presentationLink
AddSection_per_link(h, name) == Append(h, [name |-> name, lists |-> <<>>])

\* if section_name not in hierarchy: hierarchy[section_name] = {}
AddSection(h, name) ==
    IF HasSection(h, name) THEN h ELSE Append(h, [name |-> name, lists |-> <<>>])

\* current_section[from_tag].append(child_node), the list opened when the
\* parent is new
AddChildToLists(lists, from_tag, child) ==
    IF \E i \in DOMAIN lists : lists[i].parent = from_tag
    THEN [i \in DOMAIN lists |->
             IF lists[i].parent = from_tag
             THEN [lists[i] EXCEPT !.nodes = Append(@, child)]
             ELSE lists[i]]
    ELSE Append(lists, [parent |-> from_tag, nodes |-> <<child>>])

\* the same in the section of the given name (the last of that name)
AddChild(h, name, from_tag, child) ==
    LET k == CHOOSE i \in DOMAIN h :
                h[i].name = name /\ \A j \in (i + 1)..Len(h) : h[j].name # name
    IN  [h EXCEPT ![k].lists = AddChildToLists(@, from_tag, child)]

\* both ends of the arc are in tag_map
ArcMapped(locs, arc) == InTagMap(locs, arc.from) /\ InTagMap(locs, arc.to)

RECURSIVE ApplyArcs(_, _, _, _, _)
\* the loop over the presentationArc elements of one link
ApplyArcs(h, name, locs, arcs, xbrl) ==
    IF arcs = <<>> THEN h
    ELSE LET arc == Head(arcs)
         IN  IF ArcMapped(locs, arc)
             THEN ApplyArcs(AddChild(h, name, TagOf(locs, arc.from),
                                     ChildNode(TagOf(locs, arc.to), xbrl)),
                            name, locs, Tail(arcs), xbrl)
             ELSE ApplyArcs(h, name, locs, Tail(arcs), xbrl)

RECURSIVE ApplyLinks(_, _, _)
\* the loop over the presentationLink elements
ApplyLinks(h, links, xbrl) ==
    IF links = <<>> THEN h
    ELSE LET link == Head(links)
             name == get_section_name(link.role)
         IN  IF name = <<>> THEN ApplyLinks(h, Tail(links), xbrl)
             ELSE ApplyLinks(ApplyArcs(AddSection(h, name), name, link.locs,
                                       link.arcs, xbrl),
                             Tail(links), xbrl)

\* a plausible slip: the sections left without a parent are not removed
create_hierarchy_json_keep_empty(links, xbrl) ==
    [status |-> "ok", sections |-> ApplyLinks(<<>>, links, xbrl)]

\* SECFetcher.create_hierarchy_json on the links of the presentation
\* linkbase; line 517 removes the sections that hold no parent
create_hierarchy_json(links, xbrl) ==
    [status |-> "ok",
     sections |-> SelectSeq(ApplyLinks(<<>>, links, xbrl), LAMBDA sec : sec.lists # <<>>)]

\* --------------------------------------------------------- builder inputs

\* the loc elements of a link: a parent, a concept with facts, a filer
\* concept without facts, and a loc whose href holds no '#'
PreLocs ==
    << [label |-> "a", href |-> <<"x","#","u","s","-","g","a","a","p","_","I","n","c","o","m","e","A","b","s","t","r","a","c","t">>],
       [label |-> "b", href |-> <<"x","#","u","s","-","g","a","a","p","_","R","e","v","e","n","u","e","s">>],
       [label |-> "c", href |-> <<"x","#","a","a","p","l","_","C","o","s","t">>],
       [label |-> "d", href |-> <<"x",".","x","s","d">>] >>

Arc(from, to, order) == [from |-> from, to |-> to, order |-> order]

\* presentationArc elements; order is the text of the attribute
ArcInputs ==
    { Arc("a", "b", <<"2">>),
      Arc("a", "c", <<"1">>),
      Arc("a", "c", NoAttr),
      Arc("b", "a", <<"1">>),
      Arc("a", "a", <<"1">>),
      Arc("a", "d", <<"1">>) }

RoleFoo == <<"x","/","r","o","l","e","/","F","o","o">>

RoleFooDetails == <<"x","/","r","o","l","e","/","F","o","o","D","e","t","a","i","l","s">>

\* a role whose section name is empty once the suffix is removed
RoleDetails == <<"x","/","r","o","l","e","/","D","e","t","a","i","l","s">>

RoleBar == <<"x","/","r","o","l","e","/","B","a","r">>

\* a role no pattern is found in
RoleElsewhere == <<"x","/","e","l","s","e">>

Link(r, arcs) == [role |-> r, locs |-> PreLocs, arcs |-> arcs]

\* the link that may follow the first one
SecondLinks ==
    { Link(r, <<Arc("a", "b", <<"1">>)>>) :
        r \in { RoleFoo, RoleFooDetails, RoleDetails, RoleBar, RoleElsewhere } }

\* the facts of the instance document: Revenues in c-1 twice and in c-50,
\* and a filer element
PreFacts ==
    << [name |-> UsGaapRevenues, contextref |-> IdOf(1), unitref |-> <<"u","s","d">>,
        decimals |-> <<"-","6">>, text |-> <<"7">>],
       [name |-> UsGaapRevenues, contextref |-> IdOf(1), unitref |-> <<"u","s","d">>,
        decimals |-> <<"-","6">>, text |-> <<"7">>],
       [name |-> UsGaapRevenues, contextref |-> IdOf(50), unitref |-> <<"u","s","d">>,
        decimals |-> <<"-","6">>, text |-> <<"9">>],
       [name |-> AaplCustom, contextref |-> IdOf(1), unitref |-> <<"u","s","d">>,
        decimals |-> <<"-","6">>, text |-> <<"3">>] >>

\* the <context> elements of the instance document: n contexts c-1..c-n of
\* one quarter
PreContexts(n) ==
    [i \in 1..n |-> Element(IdOf(i), <<"duration", Iso(100), Iso(191)>>, <<>>)]

\* get_xbrl_data and create_context_period_mapping have run on the instance
\* document; the presentation linkbase is still to be read
PreInit ==
    /\ NsIdle
    /\ LlmIdle
    /\ PipeIdle
    /\ MainIdle
    /\ DedupIdle
    /\ RoleIdle
    /\ instance_doc \in { PreContexts(n) : n \in {1, RecurrenceFloor} }
    /\ instance_facts = PreFacts
    /\ context_data = xbrl_contexts(instance_doc)
    /\ xbrl_data = xbrl_facts(instance_facts, context_data)
    /\ contexts = context_period_mapping(instance_doc)
    /\ \E n \in 1..MaxArcs :
       \E arcs \in [1..n -> ArcInputs] :
       \E second \in {<<>>} \cup { <<l>> : l \in SecondLinks } :
          pre_doc = <<Link(RoleFoo, arcs)>> \o second
    /\ hierarchy_json = NotBuilt
    /\ hierarchy_data = <<>>
    /\ latest_contexts = [status |-> "none", ids |-> {}, baseline |-> NoId]
    /\ translated_data = <<>>
    /\ pc = "prebuild"

\* hierarchy = fetcher.create_hierarchy_json(...): None is returned and no
\* hierarchy.json is written when the presentation file cannot be fetched;
\* otherwise the translator may start on the file that was written
CreateHierarchyJson ==
    /\ pc = "prebuild"
    /\ \E fetched \in BOOLEAN :
          IF fetched
          THEN /\ hierarchy_json' = create_hierarchy_json(pre_doc, xbrl_data)
               /\ pc' = "start"
          ELSE /\ hierarchy_json' = [status |-> "failed", sections |-> <<>>]
               /\ pc' = "failed"
    /\ UNCHANGED <<pre_doc, contexts, hierarchy_data, latest_contexts, translated_data,
                   nsVars, docVars, factVars, dedupVars, llmVars, pipeVars, mainVars,
                   roleVars>>

PreNext == CreateHierarchyJson \/ SelNext

SpecPre == PreInit /\ [][PreNext]_vars

\* ------------------------------------------------- claims: the normalizer

\* the prefix is one of the patterns of ns_patterns, in any letter case
RecognizedPrefix == Lower(nsPrefix) \in NsPatterns

\* the name holds no ':' and does not itself start with a pattern and '_',
\* nor with a standard pattern and '-'
BareName(n) ==
    /\ ~Contains(n, ":")
    /\ ~(Contains(n, "_") /\ Lower(SplitHead(n, "_")) \in NsPatterns)
    /\ ~(Contains(n, "-") /\ Lower(SplitHead(n, "-")) \in NsStandard)

C8_PassthroughAnySeparator ==
    (~RecognizedPrefix /\ Len(nsOut) >= 1) => nsOut[1] = Lower(nsTag)

\* C8 amended: a tag whose prefix is in no recognized set comes back whole,
\* lower-cased, when '_' or '-' follows the prefix and the tag holds no ':';
\* when ':' follows the prefix, the prefix is stripped and the lower-cased
\* remainder after the first colon is returned.
C8_PassthroughUnlessColon ==
    (~RecognizedPrefix /\ Len(nsOut) >= 1) =>
        /\ (nsSep \in {"_", "-"} /\ ~Contains(nsName, ":")) => nsOut[1] = Lower(nsTag)
        /\ nsSep = ":" => nsOut[1] = Lower(nsName)

C8_Witness ==
    /\ ~RecognizedPrefix
    /\ nsSep = "-"
    /\ Contains(nsName, "_")
    /\ Lower(SplitHead(nsName, "_")) \in NsPatterns
    /\ Len(nsOut) >= 1
    /\ nsOut[1] = Lower(nsTag)

\* --------------------------------------------------- claims: the selector

\* the selector has run on the context map
Selected == pc \in {"selected", "failed", "done"} /\ latest_contexts.status # "none"

CtxPeriods == IF contexts = NoFile THEN <<>> ELSE PeriodContexts(contexts)

\* a Duration with well-formed dates whose length is within [85, 93] days
IsQuarter(c) ==
    /\ Parses(c.start_date)
    /\ Parses(c.end_date)
    /\ strptime(c.end_date) - strptime(c.start_date) >= 85
    /\ strptime(c.end_date) - strptime(c.start_date) <= 93

HasQuarter == LET p == CtxPeriods IN \E i \in DOMAIN p : IsQuarter(p[i])

\* how many of the Durations p carry the start_date value of c
Sharing(p, c) == Cardinality({ j \in DOMAIN p : p[j].start_date = c.start_date })

\* no start_date value is carried by 10 or more Durations
NoRecurrence == LET p == CtxPeriods IN \A i \in DOMAIN p : Sharing(p, p[i]) < 10

\* C1: the selector picks the same set of context ids whatever the order of
\* the entries of the context map is (here: the file order and its reverse).
C1_OrderIndependent ==
    (pc \in {"selected", "failed"} /\ contexts # NoFile)
        => /\ latest_contexts.status = extract_latest_context(Reverse(contexts)).status
           /\ latest_contexts.ids = extract_latest_context(Reverse(contexts)).ids

C4_FallbackToLatestCandidate ==
    (pc = "selected" /\ HasQuarter /\ NoRecurrence) => latest_contexts.ids # {}

\* C4 amended: with quarter-length Durations present and no start_date value
\* in 10 or more Durations, the selector applies no fallback: it returns an
\* empty list, selecting no candidate and no baseline.
C4_NoFallback ==
    (pc = "selected" /\ HasQuarter /\ NoRecurrence)
        => (latest_contexts.ids = {} /\ latest_contexts.baseline = NoId)

C4_Witness ==
    /\ pc = "selected"
    /\ HasQuarter
    /\ NoRecurrence
    /\ LET p == CtxPeriods IN \E i \in DOMAIN p : IsQuarter(p[i]) /\ Sharing(p, p[i]) = 9
    /\ latest_contexts.ids = {}

\* the loaded hierarchy holds a data point
HasDataPoints ==
    \E s \in DOMAIN hierarchy_data : \E l \in DOMAIN hierarchy_data[s].lists :
    \E n \in DOMAIN hierarchy_data[s].lists[l].nodes :
        hierarchy_data[s].lists[l].nodes[n].data # <<>>

\* C5: when no start date is carried by 10 Durations, the selector returns an
\* empty list as a normal outcome (it does not raise), and the filter that
\* follows it ends with an empty output instead of failing.
C5_EmptyIsNormal ==
    NoRecurrence =>
        /\ pc # "failed"
        /\ Selected => latest_contexts = Returned({}, NoId)
        /\ pc = "done" => translated_data = <<>>

C5_Witness ==
    /\ pc = "done"
    /\ NoRecurrence
    /\ CtxPeriods # <<>>
    /\ HasDataPoints
    /\ latest_contexts = Returned({}, NoId)
    /\ translated_data = <<>>

\* the ids of the twelve quarter contexts
TwelveIds == { IdOf(i) : i \in 1..12 }

\* C3 as stated: of twelve 91-day Durations with one start date and nine
\* other Durations that are no quarter, exactly the twelve are selected.
C3_OnlyTheTwelve == pc = "selected" => latest_contexts.ids = TwelveIds

\* the latest end date among the Durations that start on day d
LatestEndFrom(p, d) ==
    MaxOf({ strptime(p[i].end_date) : i \in
              { j \in DOMAIN p : strptime(p[j].start_date) = d } })

\* C3 amended: of twelve 91-day Durations starting on day S and nine other
\* Durations that are no quarter (all dates well-formed), the selector returns
\* the twelve and every one of the nine whose start_date or end_date lies in
\* [S, E + 10 days], E being the latest end date among the Durations that
\* start on S; the others of the nine are excluded.
C3_TwelveAndOverlapping ==
    pc = "selected" =>
        LET p == CtxPeriods
            last == LatestEndFrom(p, 100) + 10
        IN  latest_contexts.ids =
                TwelveIds \cup
                { p[i].id : i \in
                    { j \in DOMAIN p :
                        \/ 100 <= strptime(p[j].start_date) /\ strptime(p[j].start_date) <= last
                        \/ 100 <= strptime(p[j].end_date) /\ strptime(p[j].end_date) <= last } }

C3_Witness ==
    /\ pc = "selected"
    /\ TwelveIds \subseteq latest_contexts.ids
    /\ IdOf(13) \in latest_contexts.ids
    /\ IdOf(21) \notin latest_contexts.ids
    /\ Len(contexts) = 21

\* -------------------------------------------------- claims: the resolvers

\* a context with a missing or incomplete period, a date that is no date, or
\* an explicit-member segment the resolver cannot take apart
Malformed(e) ==
    \/ e.period \in {"missing", "startonly"}
    \/ e.period = "instant" /\ ~Parses(e.date)
    \/ e.period = "duration" /\ (~Parses(e.start_date) \/ ~Parses(e.end_date))
    \/ SegmentRaises(e.segment)

IdsOf(entries) == { entries[i].id : i \in DOMAIN entries }

\* C9: in the map either resolver produces, the malformed contexts of the
\* document are absent and every other context of the document is present;
\* one malformed context does not abort or empty the resolution.
C9_PerContextRecovery ==
    /\ context_data.status # "none" =>
          /\ context_data.status = "ok"
          /\ \A i \in DOMAIN instance_doc :
                instance_doc[i].id \in IdsOf(context_data.map)
                    <=> ~Malformed(instance_doc[i])
    /\ (pc # "fetched" /\ contexts # NoFile) =>
          \A i \in DOMAIN instance_doc :
             instance_doc[i].id \in IdsOf(contexts) <=> ~Malformed(instance_doc[i])

\* end_date >= start_date, for dates that parse
EndNotBeforeStart(sd, ed) ==
    (Parses(sd) /\ Parses(ed)) => strptime(ed) >= strptime(sd)

\* C10: every Duration of the resolved context map has end_date >= start_date;
\* a context that ends before it starts is skipped by the resolver, so the
\* selector never reads one.
C10_EndNotBeforeStart ==
    /\ \A i \in DOMAIN context_data.map :
          context_data.map[i].period.type = "period" =>
              EndNotBeforeStart(context_data.map[i].period.start_date,
                                context_data.map[i].period.end_date)
    /\ (pc \notin {"fetched", "idle"} /\ contexts # NoFile) =>
          \A i \in DOMAIN contexts :
             contexts[i].type = "period" =>
                 EndNotBeforeStart(contexts[i].start_date, contexts[i].end_date)

\* ------------------------------------------- claims: the fact extractor

\* the tagged elements the extractor scans: those under us-gaap:
UsGaapElements ==
    SelectSeq(instance_facts, LAMBDA e : StartsWith(Lower(e.name), UsGaapColon))

\* get_xbrl_data has returned
Fetched == xbrl_data.status # "none"

\* C11: every us-gaap element of the document yields exactly one data point
\* of the extractor's output, in document order, and an element whose
\* contextRef names no resolved context is retained with its value, unit and
\* decimals and without period or dimensions.
C11_OneDataPointPerFact ==
    Fetched =>
        /\ xbrl_data.status = "ok"
        /\ Len(xbrl_data.facts) = Len(UsGaapElements)
        /\ \A i \in DOMAIN xbrl_data.facts :
              LET e == UsGaapElements[i]
                  p == xbrl_data.facts[i].point
              IN  /\ p.context = AttrOr(e.contextref, <<>>)
                  /\ p.raw_value = Strip(e.text)
                  /\ p.unit = AttrOr(e.unitref, <<>>)
                  /\ p.decimals = AttrOr(e.decimals, <<"0">>)
                  /\ (\A j \in DOMAIN instance_doc : instance_doc[j].id # p.context)
                        => (~p.resolved /\ p.period = NoPeriod /\ p.axis = <<>>)

DuplicateKey(dp) == <<dp.context, dp.value, dp.unit, dp.decimals, dp.axis, dp.members>>

\* the data points of the list whose context is selected
InSelectedContext(list) ==
    SelectSeq(list, LAMBDA dp : Lower(Strip(dp.context)) \in LatestContextIds(latest_contexts))

RECURSIVE FirstsFrom(_, _)
\* the elements of the list from position i on that no earlier element
\* duplicates, in the order of the list
FirstsFrom(list, i) ==
    IF i > Len(list) THEN <<>>
    ELSE (IF \E j \in 1..(i - 1) : DuplicateKey(list[j]) = DuplicateKey(list[i])
          THEN <<>> ELSE <<list[i]>>) \o FirstsFrom(list, i + 1)

\* C13: among the data points of one concept that pass the context filter,
\* two are duplicates iff they agree on context id, value, unit, decimals,
\* axis and member lists; the first of each group of duplicates is kept, the
\* others are dropped, and the kept ones stay in input order.
C13_FirstOfEachGroupKept ==
    Len(dedupOut) >= 1 => dedupOut[1] = FirstsFrom(InSelectedContext(dpList), 1)

C13_Witness ==
    /\ Len(dedupOut) >= 1
    /\ Len(dpList) = 3
    /\ InSelectedContext(dpList) = dpList
    /\ DuplicateKey(dpList[3]) = DuplicateKey(dpList[1])
    /\ dpList[2].unit # dpList[1].unit
    /\ dedupOut[1] = <<dpList[1], dpList[2]>>

\* C14: the filter-and-dedup loop applied to its own result returns that
\* result unchanged.
C14_DedupIdempotent == Len(dedupOut) >= 2 => dedupOut[2] = dedupOut[1]

C14_Witness ==
    /\ Len(dedupOut) >= 2
    /\ Len(dedupOut[1]) >= 1
    /\ Len(dedupOut[1]) < Len(InSelectedContext(dpList))
    /\ Len(InSelectedContext(dpList)) < Len(dpList)
    /\ dedupOut[2] = dedupOut[1]

\* ------------------------------------------------ claims: the section namer

\* no company pattern and not '/role/' is found in the role URI (compared in
\* lower case, as the namer compares them)
Unmatched(r) ==
    \A k \in DOMAIN CompanyPatterns : ~HasSubstring(Lower(r), CompanyPatterns[k][1])

\* C20: a role URI in which neither a company pattern nor '/role/' is found
\* is named "Other"; the namer returns a name for every input string.
C20_UnmatchedIsOther ==
    section_name # NotNamed => (Unmatched(role) => section_name = Other)

C20_Witness ==
    /\ section_name = Other
    /\ Unmatched(role)
    /\ HasSubstring(role, <<"/", "r", "o", "l", "/", "F", "o", "o">>)

\* -------------------------------------------- claims: the hierarchy builder

\* the section holds a concept node whose fact list is not empty
BearsFacts(sec) ==
    \E i \in DOMAIN sec.lists : \E n \in DOMAIN sec.lists[i].nodes :
        sec.lists[i].nodes[n].data # <<>>

\* the section holds a parent, and each of its parents lists a child node
HoldsNodes(sec) ==
    /\ sec.lists # <<>>
    /\ \A i \in DOMAIN sec.lists : sec.lists[i].nodes # <<>>

InLatestSet(dp) == Lower(Strip(dp.context)) \in LatestContextIds(latest_contexts)

\* the concept nodes of a hierarchy, as <<section, list, node>> positions
NodesOf(h) ==
    UNION { UNION { { <<k, i, n>> : n \in DOMAIN h[k].lists[i].nodes } :
                    i \in DOMAIN h[k].lists } : k \in DOMAIN h }

NodeAt(h, at) == h[at[1]].lists[at[2]].nodes[at[3]]

OrderOf(arc) == IF arc.order = NoAttr THEN 1 ELSE NumberOf(arc.order)

RECURSIVE SectionNames(_)
\* the section name derived from the role of each link
SectionNames(links) ==
    IF links = <<>> THEN <<>>
    ELSE <<get_section_name(Head(links).role)>> \o SectionNames(Tail(links))

RECURSIVE ArcsUnder(_, _, _, _)
\* the arcs of the links named name (names are the links' section names) that
\* list a child under parent, in document order, each with the concept of
\* its child
ArcsUnder(links, names, name, parent) ==
    IF links = <<>> THEN <<>>
    ELSE LET link == Head(links)
             own == IF Head(names) = name
                    THEN SelectSeq(link.arcs,
                                   LAMBDA a : /\ ArcMapped(link.locs, a)
                                              /\ TagOf(link.locs, a.from) = parent)
                    ELSE <<>>
         IN  [i \in DOMAIN own |->
                 [concept |-> TagOf(link.locs, own[i].to), order |-> OrderOf(own[i])]]
                \o ArcsUnder(Tail(links), Tail(names), name, parent)

RECURSIVE ByOrder(_)
\* a stable sort by order: the first of the entries of least order comes first
ByOrder(entries) ==
    IF entries = <<>> THEN <<>>
    ELSE LET i == CHOOSE k \in DOMAIN entries :
                    /\ \A j \in DOMAIN entries : entries[k].order <= entries[j].order
                    /\ \A j \in 1..(k - 1) : entries[j].order > entries[k].order
         IN  <<entries[i]>>
                \o ByOrder(SubSeq(entries, 1, i - 1) \o SubSeq(entries, i + 1, Len(entries)))

\* the concepts of a sequence of nodes or entries
ConceptsOf(seq) == [i \in DOMAIN seq |-> seq[i].concept]

\* C17: within each parent, the children the builder emits are ordered by
\* the order attribute of their arcs (1 when absent), and children of equal
\* order keep their document order.
C17_ChildrenByArcOrder ==
    hierarchy_json.status = "ok" =>
        LET names == SectionNames(pre_doc)
        IN  \A k \in DOMAIN hierarchy_json.sections :
                LET sec == hierarchy_json.sections[k]
                IN  \A i \in DOMAIN sec.lists :
                        ConceptsOf(sec.lists[i].nodes)
                            = ConceptsOf(ByOrder(ArcsUnder(pre_doc, names, sec.name,
                                                           sec.lists[i].parent)))

\* the links that contribute a node: they are given a section name (names
\* are the links' section names) and hold an arc between two mapped labels
Contributing(links, names) ==
    { l \in DOMAIN links :
        /\ names[l] # <<>>
        /\ \E a \in DOMAIN links[l].arcs : ArcMapped(links[l].locs, links[l].arcs[a]) }

\* C18 as stated: the emitted hierarchy holds one section per distinct role
\* of a contributing presentationLink, so links of different roles never
\* share a section.
C18_SectionPerRole ==
    hierarchy_json.status = "ok" =>
        Len(hierarchy_json.sections)
            = Cardinality({ pre_doc[l].role :
                              l \in Contributing(pre_doc, SectionNames(pre_doc)) })

\* C18, amended: the emitted hierarchy holds one section per distinct derived
\* section name of a contributing presentationLink; links whose roles derive
\* the same name contribute their nodes to the same section, each parent
\* listing the children of all those links in document order.
C18_SectionPerName ==
    hierarchy_json.status = "ok" =>
        LET h == hierarchy_json.sections
            names == SectionNames(pre_doc)
        IN  /\ \A j, k \in DOMAIN h : h[j].name = h[k].name => j = k
            /\ { h[k].name : k \in DOMAIN h }
                  = { names[l] : l \in Contributing(pre_doc, names) }
            /\ \A k \in DOMAIN h : \A i \in DOMAIN h[k].lists :
                  ConceptsOf(h[k].lists[i].nodes)
                      = ConceptsOf(ArcsUnder(pre_doc, names, h[k].name, h[k].lists[i].parent))

C18_Witness ==
    /\ hierarchy_json.status = "ok"
    /\ Len(pre_doc) = 2
    /\ pre_doc[1].role = RoleFoo
    /\ pre_doc[2].role = RoleFooDetails
    /\ Contributing(pre_doc, SectionNames(pre_doc)) = {1, 2}
    /\ Len(hierarchy_json.sections) = 1
    /\ \E i \in DOMAIN hierarchy_json.sections[1].lists :
          Len(hierarchy_json.sections[1].lists[i].nodes) = Len(pre_doc[1].arcs) + 1

\* the <<parent, child>> pairs a section lists
Edges(sec) ==
    UNION { { <<sec.lists[i].parent, sec.lists[i].nodes[n].concept>> :
                n \in DOMAIN sec.lists[i].nodes } : i \in DOMAIN sec.lists }

RECURSIVE Descent(_)
\* the <<ancestor, descendant>> pairs that follow from the pairs in E
Descent(E) ==
    LET more == E \cup { <<p[1][1], p[2][2]>> : p \in { q \in E \X E : q[1][2] = q[2][1] } }
    IN  IF more = E THEN E ELSE Descent(more)

\* C19: in the emitted hierarchy no concept is listed among its own
\* descendants, whatever the arcs, a self-arc or a cycle of arcs included.
C19_NoConceptItsOwnAncestor ==
    hierarchy_json.status = "ok" =>
        \A k \in DOMAIN hierarchy_json.sections :
            \A e \in Descent(Edges(hierarchy_json.sections[k])) : e[1] # e[2]

\* ------------------------------------- claims: the selector's baseline

\* the selector has returned a selection with a baseline context
HasBaseline ==
    /\ Selected
    /\ latest_contexts.status = "ok"
    /\ latest_contexts.baseline # NoId

\* the entry of the context map the selector chose as baseline
BaselineContext ==
    contexts[CHOOSE i \in DOMAIN contexts : contexts[i].id = latest_contexts.baseline]

\* the start_date values carried by 10 or more Durations
RecurringStarts ==
    LET p == CtxPeriods
    IN  { p[i].start_date : i \in { j \in DOMAIN p : Truthy(p[j].start_date)
                                                      /\ Sharing(p, p[j]) >= 10 } }

C24_LatestRecurringStart ==
    HasBaseline =>
        /\ \E sd \in RecurringStarts :
              Parses(sd) /\ strptime(sd) = strptime(BaselineContext.start_date)
        /\ \A sd \in RecurringStarts :
              strptime(sd) <= strptime(BaselineContext.start_date)

C24_Witness ==
    /\ HasBaseline
    /\ LET p == CtxPeriods
       IN  \E i \in DOMAIN p :
              /\ Parses(p[i].start_date)
              /\ strptime(p[i].start_date) > strptime(BaselineContext.start_date)
              /\ Sharing(p, p[i]) = 9

\* the characters of context ids, in the order str compares them
CharOrder == <<" ", "-">> \o DigitChars \o UpperChars \o <<"_">> \o LowerChars

CharRank(c) == CHOOSE i \in DOMAIN CharOrder : CharOrder[i] = c

RECURSIVE LexLeq(_, _)
\* a <= b for two strings
LexLeq(a, b) ==
    IF a = <<>> THEN TRUE
    ELSE IF b = <<>> THEN FALSE
    ELSE IF Head(a) = Head(b) THEN LexLeq(Tail(a), Tail(b))
    ELSE CharRank(Head(a)) < CharRank(Head(b))

\* the Durations that share the start date of the baseline
SharingBaselineStart ==
    SelectSeq(CtxPeriods, LAMBDA c : c.start_date = BaselineContext.start_date)

\* C25: among the Durations sharing the baseline start date the baseline is
\* the one with the latest end date and, among those with that end date, the
\* one with the lexicographically lowest context id, whatever the order of
\* the entries of the context map is.
C25_LatestEndThenLowestId ==
    HasBaseline =>
        LET bp == SharingBaselineStart
            b == BaselineContext
        IN  \A i \in DOMAIN bp :
                /\ strptime(bp[i].end_date) <= strptime(b.end_date)
                /\ strptime(bp[i].end_date) = strptime(b.end_date) => LexLeq(b.id, bp[i].id)

\* the date string parses and its date lies in the window of the baseline:
\* [baseline start, baseline end + 10 days], bounds included
InBaselineWindow(d) ==
    /\ Parses(d)
    /\ strptime(BaselineContext.start_date) <= strptime(d)
    /\ strptime(d) <= strptime(BaselineContext.end_date) + 10

\* C26 as stated: with a baseline, a context is selected if and only if it
\* is the baseline, a Duration whose start_date or end_date lies in the
\* window, or an Instant whose date lies in the window.
C26_ExactlyBaselineAndWindow ==
    HasBaseline =>
        \A i \in DOMAIN contexts :
            LET c == contexts[i]
            IN  c.id \in latest_contexts.ids <=>
                    \/ c.id = latest_contexts.baseline
                    \/ /\ c.type = "period"
                       /\ InBaselineWindow(c.start_date) \/ InBaselineWindow(c.end_date)
                    \/ c.type = "instant" /\ InBaselineWindow(c.date)

\* what the selector does return: a Duration counts only when its two dates
\* both parse; one with an unreadable date is left out even when its other
\* date lies in the window.
C26_ExactlyBaselineAndReadableWindow ==
    HasBaseline =>
        \A i \in DOMAIN contexts :
            LET c == contexts[i]
            IN  c.id \in latest_contexts.ids <=>
                    \/ c.id = latest_contexts.baseline
                    \/ /\ c.type = "period"
                       /\ Parses(c.start_date) /\ Parses(c.end_date)
                       /\ InBaselineWindow(c.start_date) \/ InBaselineWindow(c.end_date)
                    \/ c.type = "instant" /\ InBaselineWindow(c.date)

\* ------------------------------- claims: the section id follows the pattern

RECURSIVE AfterPattern(_, _)
\* the part of the URI after the last place where the pattern is found,
\* the letters of the URI compared in lower case
AfterPattern(r, p) ==
    IF IndexOf(Lower(r), p) = 0 THEN r
    ELSE AfterPattern(SubSeq(r, IndexOf(Lower(r), p) + Len(p), Len(r)), p)

\* the name lines 561-596 give to a raw section id of a company
NamedSection(section, company) ==
    IF section = <<>> THEN Other
    ELSE Strip(IF company # Standard
               THEN company \o <<" ", "-", " ">> \o clean_section_name(StripSuffixes(section, 1))
               ELSE clean_section_name(StripSuffixes(section, 1)))

\* C27: when a pattern of the table is found in the role URI, in whatever
\* letter case the URI is written, the section is named after the part of
\* the URI that follows the pattern, and nothing before or inside the
\* pattern gets into the name.
C27_SectionFollowsPattern ==
    (section_name # NotNamed /\ MatchedPattern(role) # 0)
    => section_name = NamedSection(AfterPattern(role, CompanyPatterns[MatchedPattern(role)][1]),
                                   CompanyPatterns[MatchedPattern(role)][2])

\* the same for the URIs that hold the pattern in the table's own lower case
C27_LowerCaseSectionFollowsPattern ==
    (section_name # NotNamed /\ MatchedPattern(role) # 0
       /\ HasSubstring(role, CompanyPatterns[MatchedPattern(role)][1]))
    => section_name = NamedSection(AfterPattern(role, CompanyPatterns[MatchedPattern(role)][1]),
                                   CompanyPatterns[MatchedPattern(role)][2])

\* http://apple.com/Role/Foo is named after the whole URI
C27_WholeUriNamed ==
    /\ role = <<"h","t","t","p",":","/","/","a","p","p","l","e",".","c","o","m",
                "/","R","o","l","e","/","F","o","o">>
    /\ section_name = <<"A","p","p","l","e"," ","-"," ","h","t","t","p"," ",
                        "a","p","p","l","e"," ","c","o","m"," ","R","o","l","e"," ","F","o","o">>

\* ------------------------------------------------ the translation batches

\* batch_size
BatchSize == 40

\* max_retries
MaxRetries == 3

\* the longest tags_list: one full batch and one more tag
MaxTags == 41

\* cap on the requests of one call; two batches tried three times make six,
\* so the cap cuts no run of the loop as written
MaxRequests == 7

\* a tag the service names in its answer although it was not asked for
ForeignTag == 0

\* translations[tag] = entry for every tag of a set
PutAll(t, tags, entry) ==
    [k \in (DOMAIN t) \cup tags |-> IF k \in tags THEN entry ELSE t[k]]

\* tags_to_translate[i:i + batch_size]
BatchAt(todo, i) ==
    SubSeq(todo, i + 1, IF i + BatchSize < Len(todo) THEN i + BatchSize ELSE Len(todo))

\* the tags of a list
TagsOf(batch) == { batch[j] : j \in DOMAIN batch }

\* the tags a parsed response may name: all of the batch, all but the first,
\* none, all and one that was not asked for
AnsweredSets(batch) ==
    { TagsOf(batch), TagsOf(batch) \ {batch[1]}, {}, TagsOf(batch) \cup {ForeignTag} }

\* the entries written before a response raises: none (the request or
\* json.loads raised) or the first one (a later element lacks a key)
PartialSets(batch) == { {}, {batch[1]} }

\* a plausible slip: the loop condition written with <=
ShouldRetry_inclusive(count) == count <= MaxRetries

\* while retry_count < max_retries
ShouldRetry(count) == count < MaxRetries

\* the files translated_tags.json may be: absent, holding the first tag,
\* holding every tag
StoredTranslations(tags) ==
    { <<>>,
      [k \in TagsOf(tags) \cap {1} |-> "stored"],
      [k \in TagsOf(tags) |-> "stored"] }

TagCounts == {0, 1, 2, BatchSize - 1} \cup (BatchSize..MaxTags)

LlmInit ==
    /\ NsIdle
    /\ SelIdle
    /\ DocIdle
    /\ FactIdle
    /\ DedupIdle
    /\ PreIdle
    /\ RoleIdle
    /\ PipeIdle
    /\ MainIdle
    /\ \E n \in TagCounts : tags_list = [j \in 1..n |-> j]
    /\ translations \in StoredTranslations(tags_list)
    /\ tags_to_translate = <<>>
    /\ batch_start = 0
    /\ retry_count = 0
    /\ llm_log = <<>>
    /\ llm_pc = "start"

\* where the loop over the batches goes when the batch at i is left
LeaveBatch(todo, i) == IF i + BatchSize < Len(todo) THEN "request" ELSE "save"

\* lines 146-153: the tags without an entry are collected
CollectTags ==
    /\ llm_pc = "start"
    /\ tags_to_translate' = SelectSeq(tags_list, LAMBDA t : t \notin DOMAIN translations)
    /\ batch_start' = 0
    /\ retry_count' = 0
    /\ llm_pc' = IF tags_to_translate' # <<>> THEN "request" ELSE "save"
    /\ UNCHANGED <<tags_list, translations, llm_log, nsVars, selVars, docVars, factVars,
                   dedupVars, preVars, roleVars, pipeVars, mainVars>>

\* lines 201-235: a request whose response is processed to the end; the
\* entries it names are written and the loop of the batch is left
RequestSucceeds ==
    /\ llm_pc = "request"
    /\ Len(llm_log) < MaxRequests
    /\ \E answered \in AnsweredSets(BatchAt(tags_to_translate, batch_start)) :
          translations' = PutAll(translations, answered, "service")
    /\ llm_log' = Append(llm_log, [batch |-> batch_start, outcome |-> "ok"])
    /\ batch_start' = batch_start + BatchSize
    /\ retry_count' = 0
    /\ llm_pc' = LeaveBatch(tags_to_translate, batch_start)
    /\ UNCHANGED <<tags_list, tags_to_translate, nsVars, selVars, docVars, factVars,
                   dedupVars, preVars, roleVars, pipeVars, mainVars>>

\* lines 201-248: a request that raises, before or after some entries were
\* written; the third failure writes the fallback entry of every tag of the
\* batch
RequestFails ==
    /\ llm_pc = "request"
    /\ Len(llm_log) < MaxRequests
    /\ \E written \in PartialSets(BatchAt(tags_to_translate, batch_start)) :
          translations' =
              IF retry_count + 1 = MaxRetries
              THEN PutAll(PutAll(translations, written, "service"),
                          TagsOf(BatchAt(tags_to_translate, batch_start)), "fallback")
              ELSE PutAll(translations, written, "service")
    /\ llm_log' = Append(llm_log, [batch |-> batch_start, outcome |-> "failed"])
    /\ IF ShouldRetry(retry_count + 1)
       THEN /\ retry_count' = retry_count + 1
            /\ UNCHANGED <<batch_start, llm_pc>>
       ELSE /\ retry_count' = 0
            /\ batch_start' = batch_start + BatchSize
            /\ llm_pc' = LeaveBatch(tags_to_translate, batch_start)
    /\ UNCHANGED <<tags_list, tags_to_translate, nsVars, selVars, docVars, factVars,
                   dedupVars, preVars, roleVars, pipeVars, mainVars>>

\* lines 250-257: the map is saved and returned
ReturnTranslations ==
    /\ llm_pc = "save"
    /\ llm_pc' = "returned"
    /\ UNCHANGED <<tags_list, translations, tags_to_translate, batch_start, retry_count,
                   llm_log, nsVars, selVars, docVars, factVars, dedupVars, preVars,
                   roleVars, pipeVars, mainVars>>

LlmNext == CollectTags \/ RequestSucceeds \/ RequestFails \/ ReturnTranslations

SpecLlm == LlmInit /\ [][LlmNext]_vars

\* the function runs on: no statement of it waits for anything but the
\* service's answer, and every answer is an outcome above
SpecLlmFair == SpecLlm /\ WF_vars(LlmNext)

\* -------------------------------------- claims: the translation batches

\* the requests of the log made for the batch that starts at b
RequestsFor(b) == { j \in DOMAIN llm_log : llm_log[j].batch = b }

\* what the log of requests shows at any moment of a call
RequestsBounded ==
    \A i \in DOMAIN llm_log :
        /\ Len(BatchAt(tags_to_translate, llm_log[i].batch)) \in 1..BatchSize
        /\ Cardinality(RequestsFor(llm_log[i].batch)) <= MaxRetries
        /\ llm_log[i].outcome = "ok"
              => \A j \in (i + 1)..Len(llm_log) : llm_log[j].batch # llm_log[i].batch
        /\ (Cardinality(RequestsFor(llm_log[i].batch)) = MaxRetries
              /\ \A j \in RequestsFor(llm_log[i].batch) : llm_log[j].outcome = "failed")
              => /\ batch_start = llm_log[i].batch + BatchSize
                    \/ llm_log[Len(llm_log)].batch # llm_log[i].batch
                 /\ \A j \in (i + 1)..Len(llm_log) :
                       llm_log[j].batch # llm_log[i].batch
                          => llm_log[j].batch >= llm_log[i].batch + BatchSize

\* C29: get_llm_translations returns whatever the service answers; a batch
\* holds at most 40 tags and is requested at most 3 times, never again after
\* a response that was processed to the end, and after the third failure the
\* loop goes on with the next batch.
C29_BatchesBoundedAndReturns == []RequestsBounded /\ <>(llm_pc = "returned")

\* a call has returned after three failures of the first batch and a
\* failure followed by a success of the second
C29_Witness ==
    /\ llm_pc = "returned"
    /\ Len(llm_log) = 5
    /\ \A j \in 1..3 : llm_log[j] = [batch |-> 0, outcome |-> "failed"]
    /\ llm_log[4] = [batch |-> BatchSize, outcome |-> "failed"]
    /\ llm_log[5] = [batch |-> BatchSize, outcome |-> "ok"]

\* C30: when get_llm_translations returns, every tag of tags_list has an
\* entry in the returned map, whatever the service answered.
C30_EveryTagHasEntry ==
    llm_pc = "returned"
    => \A j \in DOMAIN tags_list : tags_list[j] \in DOMAIN translations

\* the tags left without an entry are tags of a batch whose last request
\* was processed to the end
C30_MissingOnlyAfterSuccess ==
    llm_pc = "returned"
    => \A j \in DOMAIN tags_to_translate :
          tags_to_translate[j] \notin DOMAIN translations
          => \E i \in DOMAIN llm_log :
                /\ llm_log[i].outcome = "ok"
                /\ tags_to_translate[j] \in TagsOf(BatchAt(tags_to_translate, llm_log[i].batch))

\* a call of two tags has returned after one request and the map is empty
C30_OmittedTagsMissing ==
    /\ llm_pc = "returned"
    /\ Len(tags_list) = 2
    /\ llm_log = << [batch |-> 0, outcome |-> "ok"] >>
    /\ DOMAIN translations = {}

\* ---------------------------------------- claims: filtering leaves the data

\* C22: period selection and translation do not write to what was loaded:
\* every step of _filter_and_translate (the selection of the contexts and the
\* translation of the batch) leaves the hierarchy data, with every field and
\* value of every data point, and the context map as they were.
C22_FilteringLeavesDataUnchanged ==
    [][(pc \in {"loaded", "selected"})
          => (hierarchy_data' = hierarchy_data /\ contexts' = contexts)]_vars

\* a data point with members was translated: the translated point carries
\* the translated members, the point of the hierarchy does not
C22_Witness ==
    /\ pc = "done"
    /\ \E i \in DOMAIN translated_data : \E j \in DOMAIN translated_data[i].data :
          /\ "members_translated" \in DOMAIN translated_data[i].data[j]
          /\ translated_data[i].data[j].members_translated
                = << [text |-> "M", language |-> "ko"] >>
    /\ \E s \in DOMAIN hierarchy_data : \E l \in DOMAIN hierarchy_data[s].lists :
       \E n \in DOMAIN hierarchy_data[s].lists[l].nodes :
       \E j \in DOMAIN hierarchy_data[s].lists[l].nodes[n].data :
          /\ hierarchy_data[s].lists[l].nodes[n].data[j].members = <<"M">>
          /\ "members_translated" \notin DOMAIN hierarchy_data[s].lists[l].nodes[n].data[j]

\* ------------------------------------------------------------------- main

\* the stages of main, in the order of its statements
Stages == <<"fetch", "integrate", "hierarchy", "extract_tags", "translate",
            "structured_json", "html">>

\* bool(xbrl_data) of line 31: None is false, a tuple of two elements is
\* true whatever it holds
TruthyResult(result) == result # "None"

\* main has built its SECFetcher and calls get_xbrl_data next
MainInit ==
    /\ NsIdle
    /\ SelIdle
    /\ DedupIdle
    /\ PreIdle
    /\ RoleIdle
    /\ LlmIdle
    /\ PipeIdle
    /\ instance_doc \in FactDocs
    /\ instance_facts \in [1..1 -> FactInputs]
    /\ xbrl_data = NotFetched
    /\ context_data = [status |-> "none", map |-> <<>>]
    /\ main_pc = "start"
    /\ main_ran = <<>>
    /\ main_xbrl = "unset"

\* lines 30-34: xbrl_data = fetcher.get_xbrl_data(url). A status other than
\* 200 returns None (sec_fetcher.py 111-113), an exception returns
\* (None, None) (217-219), otherwise the pair of the data and the soup is
\* returned; main returns when the result is false
MainFetch ==
    /\ main_pc = "start"
    /\ \E status_200 \in BOOLEAN :
          IF ~status_200
          THEN /\ main_xbrl' = "None"
               /\ UNCHANGED <<context_data, xbrl_data>>
          ELSE /\ context_data' = xbrl_contexts(instance_doc)
               /\ xbrl_data' = xbrl_facts(instance_facts, xbrl_contexts(instance_doc))
               /\ main_xbrl' = IF xbrl_data'.status = "failed" THEN "pair_of_None"
                               ELSE "pair_of_data"
    /\ main_ran' = Append(main_ran, Stages[1])
    /\ main_pc' = IF TruthyResult(main_xbrl') THEN "fetched" ELSE "returned"
    /\ UNCHANGED <<instance_doc, instance_facts, nsVars, selVars, dedupVars, preVars,
                   roleVars, llmVars, pipeVars>>

\* line 37: integrated_data = fetcher.integrate_data()
MainIntegrate ==
    /\ main_pc = "fetched"
    /\ main_ran' = Append(main_ran, Stages[2])
    /\ main_pc' = "integrated"
    /\ UNCHANGED <<main_xbrl, nsVars, selVars, docVars, factVars, dedupVars, preVars,
                   roleVars, llmVars, pipeVars>>

\* line 41: fetcher.create_hierarchy_json(xbrl_data, integrated_data) passes
\* two of the four arguments of sec_fetcher.py 440; the call raises TypeError
\* before the method starts, outside the try of main, and main ends with it.
\* The statements after line 41 are never reached and have no action.
MainHierarchy ==
    /\ main_pc = "integrated"
    /\ main_pc' = "raised"
    /\ UNCHANGED <<main_ran, main_xbrl, nsVars, selVars, docVars, factVars, dedupVars,
                   preVars, roleVars, llmVars, pipeVars>>

MainNext == MainFetch \/ MainIntegrate \/ MainHierarchy

SpecMain == MainInit /\ [][MainNext]_vars

\* ---------------------------------------------------------- claims: main

\* get_xbrl_data has failed: it returned None or (None, None)
FetchFailed == main_xbrl \in {"None", "pair_of_None"}

\* C28: the stages of main run in their fixed order, and every failure of
\* get_xbrl_data, an HTTP error or an exception, stops main there: no later
\* stage runs on missing data.
C28_FetchFailureStopsMain ==
    /\ \E n \in 0..Len(Stages) : main_ran = SubSeq(Stages, 1, n)
    /\ FetchFailed => (main_pc = "returned" /\ main_ran = <<Stages[1]>>)

\* an HTTP error does stop main
C28_HttpErrorStopsMain ==
    main_xbrl = "None" => (main_pc = "returned" /\ main_ran = <<Stages[1]>>)

\* get_xbrl_data raised and integrate_data has run all the same
C28_IntegrateAfterException ==
    /\ main_xbrl = "pair_of_None"
    /\ main_ran = <<Stages[1], Stages[2]>>

\* ----------------------------------------------------------- two pipelines

\* a filing: its <context> elements, its facts and its presentation linkbase
Filing(n, value) ==
    [doc |-> PreContexts(n),
     facts |-> << [name |-> UsGaapRevenues, contextref |-> IdOf(1),
                   unitref |-> <<"u","s","d">>, decimals |-> <<"-","6">>,
                   text |-> value] >>,
     pre |-> << Link(RoleFoo, <<Arc("a", "b", <<"1">>)>>) >>]

\* three filings: two of a recurring quarter with different revenues, one
\* with a single context
FilingInputs ==
    { Filing(RecurrenceFloor, <<"7">>), Filing(RecurrenceFloor, <<"9">>), Filing(1, <<"7">>) }

\* the fields of a SECFetcher after __init__
NewFetcher ==
    [xbrl_data |-> [status |-> "ok", facts |-> <<>>],
     integrated_data |-> <<>>]

\* a data directory before any file is written
EmptyDir ==
    [xbrl_json |-> <<>>, hierarchy_json |-> <<>>, context_json |-> NoFile,
     structured_json |-> <<>>]

\* integrated_point of integrate_data
IntegratedPoint(v) ==
    [value |-> v.value, unit |-> v.unit, decimals |-> v.decimals, axis |-> v.axis,
     members |-> v.members, explicit_members |-> v.explicit_members,
     period |-> v.period, source |-> "xbrl"]

\* integrate_data on the xbrl_data field of its object (custom_tags is empty:
\* nothing of main fills it)
integrate_data(xbrl) ==
    [i \in DOMAIN xbrl.facts |->
        [key |-> xbrl.facts[i].key, point |-> IntegratedPoint(xbrl.facts[i].point)]]

\* translate_recent_statements on the files of its data directory, the
\* translation service answering for every member
translate_recent_statements(hierarchy_file, context_file) ==
    IF hierarchy_file = <<>> THEN <<>>
    ELSE IF extract_latest_context(context_file).status = "raise" THEN <<>>
    ELSE translate_batch(
             ItemsToTranslate(hierarchy_file,
                              LatestContextIds(extract_latest_context(context_file))),
             TRUE)

\* what a pipeline returns for a filing when nothing else runs
AloneFacts(f) == xbrl_facts(f.facts, xbrl_contexts(f.doc))

AloneIntegrated(f) == integrate_data(AloneFacts(f))

AloneTranslated(f) ==
    translate_recent_statements(create_hierarchy_json(f.pre, AloneFacts(f)).sections,
                                context_period_mapping(f.doc))

\* a pipeline that has not started: the filing it processes, the SECFetcher
\* object and the data directory it uses
NewPipeline(f, obj, dir) ==
    [filing |-> f, obj |-> obj, dir |-> dir, at |-> "fetch",
     facts |-> [status |-> "none", facts |-> <<>>], integrated |-> <<>>, translated |-> <<>>]

\* two pipelines on two different filings. The first uses fetcher 1 and
\* directory 1; the second has its own fetcher or the first one's, and its
\* own directory or the first one's (the directory of main is fixed: two
\* runs of main use the same one)
PipeInit ==
    /\ NsIdle
    /\ SelIdle
    /\ DocIdle
    /\ FactIdle
    /\ DedupIdle
    /\ PreIdle
    /\ RoleIdle
    /\ LlmIdle
    /\ MainIdle
    /\ \E f1 \in FilingInputs, f2 \in FilingInputs, obj \in 1..2, dir \in 1..2 :
          /\ f1 # f2
          /\ pipes = <<NewPipeline(f1, 1, 1), NewPipeline(f2, obj, dir)>>
    /\ objects = <<NewFetcher, NewFetcher>>
    /\ dirs = <<EmptyDir, EmptyDir>>

\* get_xbrl_data: self.xbrl_data is replaced (line 177), xbrl_data.json is
\* written and a copy of the field is returned
PipeGetXbrlData(p) ==
    /\ pipes[p].at = "fetch"
    /\ LET data == xbrl_facts(pipes[p].filing.facts, xbrl_contexts(pipes[p].filing.doc))
       IN  /\ objects' = [objects EXCEPT ![pipes[p].obj].xbrl_data = data]
           /\ dirs' = [dirs EXCEPT ![pipes[p].dir].xbrl_json = data.facts]
           /\ pipes' = [pipes EXCEPT ![p].facts = data, ![p].at = "integrate"]
    /\ UNCHANGED <<nsVars, selVars, docVars, factVars, dedupVars, preVars, roleVars,
                   llmVars, mainVars>>

\* integrate_data: reads self.xbrl_data, sets and returns self.integrated_data
PipeIntegrateData(p) ==
    /\ pipes[p].at = "integrate"
    /\ LET integrated == integrate_data(objects[pipes[p].obj].xbrl_data)
       IN  /\ objects' = [objects EXCEPT ![pipes[p].obj].integrated_data = integrated]
           /\ pipes' = [pipes EXCEPT ![p].integrated = integrated, ![p].at = "hierarchy"]
    /\ UNCHANGED <<dirs, nsVars, selVars, docVars, factVars, dedupVars, preVars, roleVars,
                   llmVars, mainVars>>

\* create_hierarchy_json on the data get_xbrl_data returned: hierarchy.json
\* of the directory is written
PipeCreateHierarchy(p) ==
    /\ pipes[p].at = "hierarchy"
    /\ dirs' = [dirs EXCEPT ![pipes[p].dir].hierarchy_json =
                   create_hierarchy_json(pipes[p].filing.pre, pipes[p].facts).sections]
    /\ pipes' = [pipes EXCEPT ![p].at = "contexts"]
    /\ UNCHANGED <<objects, nsVars, selVars, docVars, factVars, dedupVars, preVars,
                   roleVars, llmVars, mainVars>>

\* create_context_period_mapping: context_data.json of the directory is
\* written
PipeCreateContextMapping(p) ==
    /\ pipes[p].at = "contexts"
    /\ dirs' = [dirs EXCEPT ![pipes[p].dir].context_json =
                   context_period_mapping(pipes[p].filing.doc)]
    /\ pipes' = [pipes EXCEPT ![p].at = "translate"]
    /\ UNCHANGED <<objects, nsVars, selVars, docVars, factVars, dedupVars, preVars,
                   roleVars, llmVars, mainVars>>

\* translate_recent_statements of the pipeline's own FinancialTranslator:
\* hierarchy.json and context_data.json of the directory are read and
\* structured_kr_data.json is written
PipeTranslate(p) ==
    /\ pipes[p].at = "translate"
    /\ LET translated == translate_recent_statements(dirs[pipes[p].dir].hierarchy_json,
                                                     dirs[pipes[p].dir].context_json)
       IN  /\ dirs' = [dirs EXCEPT ![pipes[p].dir].structured_json = translated]
           /\ pipes' = [pipes EXCEPT ![p].translated = translated, ![p].at = "done"]
    /\ UNCHANGED <<objects, nsVars, selVars, docVars, factVars, dedupVars, preVars,
                   roleVars, llmVars, mainVars>>

PipeStep(p) ==
    \/ PipeGetXbrlData(p)
    \/ PipeIntegrateData(p)
    \/ PipeCreateHierarchy(p)
    \/ PipeCreateContextMapping(p)
    \/ PipeTranslate(p)

PipeNext == \E p \in 1..2 : PipeStep(p)

SpecPipes == PipeInit /\ [][PipeNext]_vars

\* ------------------------------------------------- claims: two pipelines

\* what the pipeline has returned so far is what it returns when run alone
AsAlone(p) ==
    /\ pipes[p].at \notin {"fetch"} => pipes[p].facts = AloneFacts(pipes[p].filing)
    /\ pipes[p].at \notin {"fetch", "integrate"}
          => pipes[p].integrated = AloneIntegrated(pipes[p].filing)
    /\ pipes[p].at = "done" => pipes[p].translated = AloneTranslated(pipes[p].filing)

\* C21: however the operations of two pipelines on two different filings
\* are interleaved, the extracted facts, the integrated data and the
\* translated output of each are those it produces when run alone.
C21_InterleavingChangesNoResult == \A p \in DOMAIN pipes : AsAlone(p)

\* the same for two pipelines that share neither the SECFetcher object nor
\* the data directory
C21_SeparatePipelinesAsAlone ==
    (pipes # <<>> /\ pipes[2].obj # pipes[1].obj /\ pipes[2].dir # pipes[1].dir)
    => \A p \in DOMAIN pipes : AsAlone(p)

\* two pipelines with their own SECFetcher objects and the data directory
\* of main: the first has translated the hierarchy of the second's filing
C21_TranslatedTheOtherFiling ==
    /\ pipes # <<>>
    /\ pipes[2].obj # pipes[1].obj
    /\ pipes[2].dir = pipes[1].dir
    /\ pipes[1].at = "done"
    /\ pipes[1].translated # AloneTranslated(pipes[1].filing)
    /\ pipes[1].translated = AloneTranslated(pipes[2].filing)

\* two pipelines on one SECFetcher object and separate directories: the
\* first has integrated the facts of the second's filing
C21_IntegratedTheOtherFiling ==
    /\ pipes # <<>>
    /\ pipes[2].obj = pipes[1].obj
    /\ pipes[2].dir # pipes[1].dir
    /\ pipes[1].at = "hierarchy"
    /\ pipes[1].integrated = AloneIntegrated(pipes[2].filing)
    /\ pipes[1].integrated # AloneIntegrated(pipes[1].filing)

=============================================================================
